---- MODULE Spec2Model ----
(***************************************************************************)
(* Budget-constrained appliance balancing of the Model repository:         *)
(*   - ApplianceBalancer.balance_appliances   (lastestProduct)             *)
(*   - BillCalculator.adjust_usage_for_threshold (lastestProduct)          *)
(*   - DataProcessor.apply_threshold          (finalProduct)               *)
(* Python floats are modelled as rationals in lowest terms with a positive *)
(* denominator.  <<n, d>> is a real number, on which arithmetic is exact;   *)
(* <<n, d, bits>> is a binary floating-point number of bits significant    *)
(* bits: an operator with such an operand rounds its result to the nearest *)
(* value of that width, ties to even.  Python lists are 0-based; the       *)
(* sequences here are 1-based, so index k here is index k-1 there.         *)
(***************************************************************************)
EXTENDS Integers, Sequences, FiniteSets, TLC

\* ------------------------------------------------------------------------
\* Bounds of the model
\* ------------------------------------------------------------------------
MaxAppliances == 2

\* the significand width of the floating-point runs
MantissaBits == 5

\* ------------------------------------------------------------------------
\* Arithmetic standing for Python's float operators
\* ------------------------------------------------------------------------
Abs(x) == IF x < 0 THEN 0 - x ELSE x

RECURSIVE GCD(_, _)
GCD(a, b) == IF b = 0 THEN a ELSE GCD(b, a % b)

\* n / d in lowest terms, d > 0
Norm(n, d) ==
    LET g == GCD(Abs(n), d)
    IN  IF n = 0 THEN <<0, 1>> ELSE <<n \div g, d \div g>>

QInt(i) == <<i, 1>>

RECURSIVE Pow2(_)
Pow2(k) == IF k <= 0 THEN 1 ELSE 2 * Pow2(k - 1)

\* <<n', d', e>> with n / d = (n' / d') x 2^e and lo <= n' / d' < 2 lo
RECURSIVE Scaled(_, _, _, _)
Scaled(n, d, e, lo) ==
    IF n >= 2 * d * lo THEN Scaled(n, 2 * d, e + 1, lo)
    ELSE IF n < d * lo THEN Scaled(2 * n, d, e - 1, lo)
    ELSE <<n, d, e>>

\* the integer nearest to n / d, ties to even
NearestInteger(n, d) ==
    LET m == n \div d
        r == n % d
    IN  IF 2 * r > d \/ (2 * r = d /\ m % 2 = 1) THEN m + 1 ELSE m

\* m x 2^e
Scale2(m, e) == IF e >= 0 THEN <<m * Pow2(e), 1>> ELSE Norm(m, Pow2(0 - e))

FromScaled(sc, sign) == Scale2(sign * NearestInteger(sc[1], sc[2]), sc[3])

\* the value of bits significant bits nearest to x, ties to even
Nearest(x, bits) ==
    FromScaled(Scaled(Abs(x[1]), x[2], 0, Pow2(bits - 1)), IF x[1] < 0 THEN 0 - 1 ELSE 1)

\* the significand width of a number, 0 for a real number
Bits(a) == IF Len(a) = 3 THEN a[3] ELSE 0

\* the width an operation on a and b is carried out in
OpBits(a, b) == IF Bits(a) > 0 THEN Bits(a) ELSE Bits(b)

\* the result of one operation of width bits whose real value is x
Round(x, bits) ==
    IF bits = 0 THEN x
    ELSE IF x[1] = 0 THEN <<0, 1, bits>>
    ELSE Append(Nearest(x, bits), bits)

\* an operand as the operation sees it: a literal is first made a float
Operand(a, bits) == IF Len(a) = 3 THEN a ELSE Round(a, bits)

\* a + b, a x b and 1 / b (b # 0) as real numbers
RealAdd(a, b) ==
    LET g == GCD(a[2], b[2])
    IN  Norm(a[1] * (b[2] \div g) + b[1] * (a[2] \div g), (a[2] \div g) * b[2])

RealMul(a, b) ==
    LET g1 == GCD(Abs(a[1]), b[2])
        g2 == GCD(Abs(b[1]), a[2])
    IN  IF a[1] = 0 \/ b[1] = 0 THEN <<0, 1>>
        ELSE Norm((a[1] \div g1) * (b[1] \div g2), (a[2] \div g2) * (b[2] \div g1))

RealInverse(b) == IF b[1] > 0 THEN <<b[2], b[1]>> ELSE <<0 - b[2], 0 - b[1]>>

AddIn(a, b, bits) == Round(RealAdd(Operand(a, bits), Operand(b, bits)), bits)

MulIn(a, b, bits) == Round(RealMul(Operand(a, bits), Operand(b, bits)), bits)

DivIn(a, b, bits) ==
    Round(RealMul(Operand(a, bits), RealInverse(Operand(b, bits))), bits)

QAdd(a, b) == AddIn(a, b, OpBits(a, b))

QNeg(a) == [a EXCEPT ![1] = 0 - a[1]]

QSub(a, b) == QAdd(a, QNeg(b))

QMul(a, b) == MulIn(a, b, OpBits(a, b))

\* a / b for b # 0
QDiv(a, b) == DivIn(a, b, OpBits(a, b))

QLt(a, b) == a[1] * b[2] < b[1] * a[2]

QLe(a, b) == a[1] * b[2] <= b[1] * a[2]

QMax(a, b) == IF QLt(a, b) THEN b ELSE a

QMin(a, b) == IF QLt(b, a) THEN b ELSE a

Zero == QInt(0)

Half == <<1, 2>>

\* sum(...) / np.sum(...) over a sequence of numbers, added left to right
RECURSIVE QSumFrom(_, _)
QSumFrom(acc, s) == IF s = <<>> THEN acc ELSE QSumFrom(QAdd(acc, Head(s)), Tail(s))

QSum(s) == QSumFrom(Zero, s)

\* a list of adjustments in place of the dict: every assignment adds an entry
DictSetAppended(d, key, msg) == Append(d, <<key, msg>>)

\* Python dict assignment d[key] = msg on an insertion-ordered dict, kept as a
\* sequence of <<key, msg>> pairs: an existing key keeps its position.
DictSet(d, key, msg) ==
    IF \E i \in DOMAIN d : d[i][1] = key
    THEN [i \in DOMAIN d |-> IF d[i][1] = key THEN <<key, msg>> ELSE d[i]]
    ELSE Append(d, <<key, msg>>)

DictKeys(d) == {d[i][1] : i \in DOMAIN d}

\* ------------------------------------------------------------------------
\* State
\* ------------------------------------------------------------------------
VARIABLES
    dicts,                \* the appliance dict objects, by object identity
    appliances,           \* the caller's list: a sequence of object identities
    daily_costs,          \* the caller's np.ndarray of predicted daily costs
    valid_indices,        \* indices (into appliances) of the preprocessed rows
    max_monthly_bill,     \* the threshold
    adjusted_appliances,  \* appliances.copy(): a new list of the same objects
    adjustments,          \* the adjustments dict, in insertion order
    total_monthly_bill,   \* local of balance_appliances
    excluded_indices,     \* local: <<idx, orig_idx>> pairs
    balancing_indices,    \* local: <<idx, orig_idx>> pairs
    other_indices,        \* local: <<idx, orig_idx>> pairs
    cost_per_minute,      \* local: idx -> cost per minute (balancing list)
    pc,                   \* position in the function under execution
    path,                 \* which return statement was taken
    dicts0,               \* history: the dict objects as they were when the pass began
    costs0,               \* history: daily_costs when the pass began
    iterations,           \* history: Phase B iterations completed in the pass
    passes,               \* history: successive calls that have returned
    \* DataProcessor (finalProduct)
    dp_appliances,        \* the appliance dicts handed to apply_threshold
    threshold,            \* its threshold argument
    sorted_appliances,    \* local: the same dicts ordered by adjusted cost
    total_cost,           \* local of apply_threshold
    model,                \* which cost model self.model is
    dp_appliances0,       \* history: the appliance dicts when the call began
    calls                 \* history: calls of apply_threshold begun so far

\* the state of balance_appliances and adjust_usage_for_threshold but pc, path
balancer_vars == <<dicts, appliances, daily_costs, valid_indices, max_monthly_bill,
                   adjusted_appliances, adjustments, total_monthly_bill,
                   excluded_indices, balancing_indices, other_indices,
                   cost_per_minute, dicts0, costs0, iterations, passes>>

\* the state of DataProcessor.apply_threshold but pc, path
processor_vars == <<dp_appliances, threshold, sorted_appliances, total_cost,
                    model, dp_appliances0, calls>>

vars == <<balancer_vars, processor_vars, pc, path>>

\* ------------------------------------------------------------------------
\* Inputs
\* ------------------------------------------------------------------------
ExcludedTypes == {"Refrigerator", "Washing Machine", "Smart Plug"}

BalancingTypes == {"Heater", "TV", "Ceiling Fan", "Air Conditioner", "Microwave"}

DeviceTypes == {"Refrigerator", "Heater", "TV", "Smart Bulb"}

UsageValues == {QInt(0), QInt(1), QInt(120)}

CostValues == {QInt(-1), QInt(0), <<1, 10>>, QInt(4)}

Thresholds == {QInt(-5), QInt(0), QInt(6), QInt(20), QInt(90)}

PowerValues == {QInt(1000)}

RoomLocations == {"Living Room"}

Temperatures == {QInt(22)}

Humidities == {QInt(55)}

Statuses == {"On"}

\* an appliance dict: "Device Type", "Power Consumption (W)",
\* "Usage Duration (minutes)", "Room Location", "Temperature (°C)",
\* "Humidity (%)", "On/Off Status"
ApplianceDicts ==
    [device_type : DeviceTypes, power : PowerValues, usage : UsageValues,
     room : RoomLocations, temperature : Temperatures, humidity : Humidities,
     on_off : Statuses]

RECURSIVE SortedSeq(_)
SortedSeq(S) ==
    IF S = {} THEN <<>>
    ELSE LET m == CHOOSE x \in S : \A y \in S : x <= y
         IN  <<m>> \o SortedSeq(S \ {m})

\* ------------------------------------------------------------------------
\* BillCalculator.calculate_monthly_bill (lastestProduct)
\* ------------------------------------------------------------------------
\* the display-unit factor applied the wrong way round
monthly_costs_times_ten(dc) ==
    [i \in DOMAIN dc |-> QMul(QMul(dc[i], QInt(30)), QInt(10))]

monthly_costs(dc) == [i \in DOMAIN dc |-> QDiv(QMul(dc[i], QInt(30)), QInt(10))]

calculate_monthly_bill(dc) == <<QSum(monthly_costs(dc)), monthly_costs(dc)>>

\* calculate_monthly_bill of src/application: the sum of the daily costs and
\* an empty list
application_calculate_monthly_bill(dc) == <<QSum(dc), <<>>>>

\* the bill taken ten times too large
SumTimes300(dc) == QSum([i \in DOMAIN dc |-> QMul(dc[i], QInt(300))])

\* np.sum(daily_costs * 30)
SumTimes30(dc) == QSum([i \in DOMAIN dc |-> QMul(dc[i], QInt(30))])

\* ------------------------------------------------------------------------
\* ApplianceBalancer.balance_appliances
\* ------------------------------------------------------------------------
\* enumerate(valid_indices) as <<idx, orig_idx>> pairs
Enumerated(vi) == [idx \in DOMAIN vi |-> <<idx, vi[idx]>>]

DeviceTypeAt(list, orig_idx) == dicts[list[orig_idx]].device_type

\* a classifier that forgets the Refrigerator in the excluded list
IsExcludedWithoutRefrigerator(device_type) ==
    device_type \in {"Washing Machine", "Smart Plug"}

IsExcluded(device_type) == device_type \in ExcludedTypes

\* a classifier that takes every device type not excluded for a balancing one
IsBalancingByDefault(device_type) == device_type \notin ExcludedTypes

IsBalancing(device_type) == device_type \in BalancingTypes

\* half of the threshold set aside in place of a fifth
NonBalancingBudgetHalf(limit) == QMul(limit, Half)

NonBalancingBudget(limit) == QMul(limit, <<1, 5>>)

\* the remaining budget without the excluded appliances' cost taken off
RemainingBudgetWithoutExcluded(limit, dc, excl) ==
    QSub(limit, NonBalancingBudget(limit))

RemainingBudget(limit, dc, excl) ==
    LET excluded_daily_cost == QSum([k \in DOMAIN excl |-> dc[excl[k][1]]])
        excluded_monthly_cost == QMul(excluded_daily_cost, QInt(30))
    IN  QSub(QSub(limit, NonBalancingBudget(limit)), excluded_monthly_cost)

\* cost per minute of the appliance behind pair p, as lines 84-88 and 140-144
CostPerMinute(d, list, dc, p) ==
    LET usage_minutes == d[list[p[2]]].usage
    IN  IF QLt(Zero, usage_minutes) THEN QDiv(dc[p[1]], usage_minutes) ELSE Zero

\* the entry test without its "threshold is invalid" half
EntryNoAdjustmentBillOnly(total, limit) == QLe(total, limit)

EntryNoAdjustment(total, limit) == QLe(total, limit) \/ QLe(limit, Zero)

Enter ==
    /\ pc = "call"
    /\ adjusted_appliances' = appliances
    /\ adjustments' = <<>>
    /\ total_monthly_bill' = calculate_monthly_bill(daily_costs)[1]
    /\ IF EntryNoAdjustment(total_monthly_bill', max_monthly_bill)
       THEN pc' = "done" /\ path' = "no_adjustment"
       ELSE pc' = "classify" /\ path' = path
    /\ UNCHANGED <<dicts, appliances, daily_costs, valid_indices, max_monthly_bill,
                   excluded_indices, balancing_indices, other_indices,
                   cost_per_minute, dicts0, costs0, iterations, passes, processor_vars>>

Classify ==
    /\ pc = "classify"
    /\ LET pairs == Enumerated(valid_indices)
           ty(p) == DeviceTypeAt(adjusted_appliances, p[2])
           excl == SelectSeq(pairs, LAMBDA p : IsExcluded(ty(p)))
       IN  /\ excluded_indices' = excl
           /\ balancing_indices' =
                 SelectSeq(pairs, LAMBDA p : ~IsExcluded(ty(p)) /\ IsBalancing(ty(p)))
           /\ other_indices' =
                 SelectSeq(pairs, LAMBDA p : ~IsExcluded(ty(p)) /\ ~IsBalancing(ty(p)))
           /\ IF QLe(RemainingBudget(max_monthly_bill, daily_costs, excl), Zero)
              THEN pc' = "done" /\ path' = "infeasible"
              ELSE pc' = "phaseA" /\ path' = path
    /\ UNCHANGED <<dicts, appliances, daily_costs, valid_indices, max_monthly_bill,
                   adjusted_appliances, adjustments, total_monthly_bill,
                   cost_per_minute, dicts0, costs0, iterations, passes, processor_vars>>

\* The adjustment text; its numbers are kept as they are before the f-string
\* renders them: <<kind, new_usage_hours, reduction_percent, original_usage_hours>>
Message(kind, new_usage, reduced_from, percent_base) ==
    <<kind,
      QDiv(new_usage, QInt(60)),
      QMul(QDiv(QSub(reduced_from, new_usage), percent_base), QInt(100)),
      QDiv(percent_base, QInt(60))>>

\* the usage written together with a power lowered by a fifth
SetUsageAndPower(d, obj, new_usage) ==
    [d EXCEPT ![obj].usage = new_usage, ![obj].power = QMul(@, <<4, 5>>)]

SetUsage(d, obj, new_usage) == [d EXCEPT ![obj].usage = new_usage]

\* the scale factor added to the daily cost in place of multiplying it
ScaleCostAdded(dc, idx, new_usage, old_usage) ==
    [dc EXCEPT ![idx] = QAdd(dc[idx], QDiv(new_usage, old_usage))]

ScaleCost(dc, idx, new_usage, old_usage) ==
    [dc EXCEPT ![idx] = QMul(dc[idx], QDiv(new_usage, old_usage))]

\* Step 2, lines 80-93: cost per minute of the others and its positive total
CostPerMinuteOthers(d, list, dc, others) ==
    [k \in DOMAIN others |-> CostPerMinute(d, list, dc, others[k])]

PositiveTotal(cpm) ==
    QSum(SelectSeq(cpm, LAMBDA c : QLt(Zero, c)))

\* maximum usage of one capped appliance, lines 105-107
CappedUsage(original_usage_minutes, cost_per_minute_val, total_others, limit) ==
    LET allocated_daily_cost ==
            QMul(QDiv(cost_per_minute_val, total_others),
                 QDiv(NonBalancingBudget(limit), QInt(30)))
        max_usage_minutes == QDiv(allocated_daily_cost, cost_per_minute_val)
    IN  QMin(original_usage_minutes, max_usage_minutes)

\* the for loop of lines 94-123 from its k-th pair on; st = [d, dc, adj]
RECURSIVE CapLoop(_, _, _, _, _, _)
CapLoop(k, st, list, others, cpm, limit) ==
    IF k > Len(others) THEN st
    ELSE
      LET idx == others[k][1]
          obj == list[others[k][2]]
          original_usage_minutes == st.d[obj].usage
          cost_per_minute_val == cpm[k]
          new_usage_minutes ==
              CappedUsage(original_usage_minutes, cost_per_minute_val,
                          PositiveTotal(cpm), limit)
          next ==
              IF QLe(original_usage_minutes, Zero) THEN st
              ELSE IF QLe(cost_per_minute_val, Zero) THEN st
              ELSE IF QLt(new_usage_minutes, original_usage_minutes)
              THEN [d   |-> SetUsage(st.d, obj, new_usage_minutes),
                    dc  |-> ScaleCost(st.dc, idx, new_usage_minutes, original_usage_minutes),
                    adj |-> DictSet(st.adj, others[k][2],
                                    Message("Set maximum usage", new_usage_minutes,
                                            original_usage_minutes, original_usage_minutes))]
              ELSE st
      IN  CapLoop(k + 1, next, list, others, cpm, limit)

PhaseA ==
    /\ pc = "phaseA"
    /\ LET cpm == CostPerMinuteOthers(dicts, adjusted_appliances, daily_costs, other_indices)
           st == CapLoop(1, [d |-> dicts, dc |-> daily_costs, adj |-> adjustments],
                         adjusted_appliances, other_indices, cpm, max_monthly_bill)
       IN  /\ dicts' = st.d
           /\ daily_costs' = st.dc
           /\ adjustments' = st.adj
    /\ pc' = "recheck"
    /\ UNCHANGED <<appliances, valid_indices, max_monthly_bill, adjusted_appliances,
                   total_monthly_bill, excluded_indices, balancing_indices,
                   other_indices, cost_per_minute, path, dicts0, costs0, iterations,
                   passes, processor_vars>>

\* Steps 3 and 4 up to the loop, lines 125-144
Recheck ==
    /\ pc = "recheck"
    /\ total_monthly_bill' = SumTimes30(daily_costs)
    /\ IF QLe(total_monthly_bill', max_monthly_bill)
       THEN pc' = "done" /\ path' = "capped" /\ cost_per_minute' = cost_per_minute
       ELSE IF balancing_indices = <<>>
       THEN pc' = "done" /\ path' = "no_balancing" /\ cost_per_minute' = cost_per_minute
       ELSE /\ pc' = "phaseB"
            /\ path' = path
            /\ cost_per_minute' =
                   [k \in DOMAIN balancing_indices |->
                       CostPerMinute(dicts, adjusted_appliances, daily_costs,
                                     balancing_indices[k])]
    /\ UNCHANGED <<dicts, appliances, daily_costs, valid_indices, max_monthly_bill,
                   adjusted_appliances, adjustments, excluded_indices,
                   balancing_indices, other_indices, dicts0, costs0, iterations,
                   passes, processor_vars>>

\* line 153-157: cost per minute summed over the balancing appliances still in use
TotalCostPerMinute(d, list, bal, cpm) ==
    QSum([k \in DOMAIN bal |->
            IF QLt(Zero, d[list[bal[k][2]]].usage) THEN cpm[k] ELSE Zero])

\* as ReducedUsage, with half of the current usage as the floor instead of 0
ReducedUsageToHalf(current_usage_minutes, cost_per_minute_val, total_cost_per_minute, excess_cost) ==
    LET cost_to_reduce ==
            QMul(excess_cost, QDiv(cost_per_minute_val, total_cost_per_minute))
        minutes_to_reduce == QDiv(cost_to_reduce, cost_per_minute_val)
    IN  QMax(QSub(current_usage_minutes, minutes_to_reduce),
             QMul(Half, current_usage_minutes))

\* lines 179-183: the usage one Phase B iteration leaves an appliance
ReducedUsage(current_usage_minutes, cost_per_minute_val, total_cost_per_minute, excess_cost) ==
    LET cost_to_reduce ==
            QMul(excess_cost, QDiv(cost_per_minute_val, total_cost_per_minute))
        minutes_to_reduce == QDiv(cost_to_reduce, cost_per_minute_val)
    IN  QMax(QSub(current_usage_minutes, minutes_to_reduce), Zero)

\* the for loop of lines 165-201 from its k-th pair on; st = [d, dc, adj]
RECURSIVE BalanceLoop(_, _, _, _, _, _, _, _)
BalanceLoop(k, st, list, orig_list, bal, cpm, total_cpm, excess_cost) ==
    IF k > Len(bal) THEN st
    ELSE
      LET idx == bal[k][1]
          obj == list[bal[k][2]]
          current_usage_minutes == st.d[obj].usage
          original_usage_minutes == st.d[orig_list[bal[k][2]]].usage
          cost_per_minute_val == cpm[k]
          new_usage_minutes ==
              ReducedUsage(current_usage_minutes, cost_per_minute_val, total_cpm, excess_cost)
          next ==
              IF QLe(current_usage_minutes, Zero) THEN st
              ELSE IF QLe(cost_per_minute_val, Zero) THEN st
              ELSE IF QLt(new_usage_minutes, current_usage_minutes)
              THEN [d   |-> SetUsage(st.d, obj, new_usage_minutes),
                    dc  |-> ScaleCost(st.dc, idx, new_usage_minutes, current_usage_minutes),
                    adj |-> DictSet(st.adj, bal[k][2],
                                    Message("Adjusted usage", new_usage_minutes,
                                            current_usage_minutes, original_usage_minutes))]
              ELSE st
      IN  BalanceLoop(k + 1, next, list, orig_list, bal, cpm, total_cpm, excess_cost)

\* the comparison of line 160 inverted
NoFurtherAdjustmentInverted(total_cost_per_minute) == QLe(Zero, total_cost_per_minute)

\* line 160: no further adjustment is possible
NoFurtherAdjustment(total_cost_per_minute) == QLe(total_cost_per_minute, Zero)

\* line 147: the while condition
OverThreshold == QLt(max_monthly_bill, total_monthly_bill)

\* one iteration of the while loop, lines 147-204
BalanceIteration ==
    /\ pc = "phaseB"
    /\ OverThreshold
    /\ LET excess_cost == QSub(total_monthly_bill, max_monthly_bill)
           total_cpm == TotalCostPerMinute(dicts, adjusted_appliances,
                                           balancing_indices, cost_per_minute)
           st == BalanceLoop(1, [d |-> dicts, dc |-> daily_costs, adj |-> adjustments],
                             adjusted_appliances, appliances, balancing_indices,
                             cost_per_minute, total_cpm, excess_cost)
       IN  /\ ~NoFurtherAdjustment(total_cpm)
           /\ dicts' = st.d
           /\ daily_costs' = st.dc
           /\ adjustments' = st.adj
           /\ total_monthly_bill' = SumTimes30(st.dc)
    /\ iterations' = iterations + 1
    /\ UNCHANGED <<appliances, valid_indices, max_monthly_bill, adjusted_appliances,
                   excluded_indices, balancing_indices, other_indices,
                   cost_per_minute, pc, path, dicts0, costs0, passes, processor_vars>>

\* lines 159-162: break, then return
LoopBreak ==
    /\ pc = "phaseB"
    /\ OverThreshold
    /\ NoFurtherAdjustment(TotalCostPerMinute(dicts, adjusted_appliances,
                                              balancing_indices, cost_per_minute))
    /\ pc' = "done"
    /\ path' = "exhausted"
    /\ UNCHANGED <<dicts, appliances, daily_costs, valid_indices, max_monthly_bill,
                   adjusted_appliances, adjustments, total_monthly_bill,
                   excluded_indices, balancing_indices, other_indices,
                   cost_per_minute, dicts0, costs0, iterations, passes, processor_vars>>

\* the while condition fails: lines 206-207
LoopExit ==
    /\ pc = "phaseB"
    /\ ~OverThreshold
    /\ pc' = "done"
    /\ path' = "balanced"
    /\ UNCHANGED <<dicts, appliances, daily_costs, valid_indices, max_monthly_bill,
                   adjusted_appliances, adjustments, total_monthly_bill,
                   excluded_indices, balancing_indices, other_indices,
                   cost_per_minute, dicts0, costs0, iterations, passes, processor_vars>>

\* a call balance_appliances(appliances, daily_costs, max_monthly_bill, valid_indices)
Init ==
    /\ \E n \in 0 .. MaxAppliances :
         /\ dicts \in [1 .. n -> ApplianceDicts]
         /\ appliances = [i \in 1 .. n |-> i]
         /\ \E V \in SUBSET (1 .. n) :
              /\ valid_indices = SortedSeq(V)
              /\ daily_costs \in [1 .. Cardinality(V) -> CostValues]
    /\ max_monthly_bill \in Thresholds
    /\ adjusted_appliances = <<>>
    /\ adjustments = <<>>
    /\ total_monthly_bill = Zero
    /\ excluded_indices = <<>>
    /\ balancing_indices = <<>>
    /\ other_indices = <<>>
    /\ cost_per_minute = <<>>
    /\ pc = "call"
    /\ path = "none"
    /\ dicts0 = dicts
    /\ costs0 = daily_costs
    /\ iterations = 0
    /\ passes = 0
    /\ dp_appliances = <<>>
    /\ threshold = Zero
    /\ sorted_appliances = <<>>
    /\ total_cost = Zero
    /\ model = "none"
    /\ dp_appliances0 = <<>>
    /\ calls = 0

Next ==
    \/ Enter
    \/ Classify
    \/ PhaseA
    \/ Recheck
    \/ BalanceIteration
    \/ LoopBreak
    \/ LoopExit

Spec == Init /\ [][Next]_vars

\* ------------------------------------------------------------------------
\* Properties of balance_appliances (checked under Spec)
\* ------------------------------------------------------------------------
Returned == pc = "done"

NonNegativeCosts == \A i \in DOMAIN costs0 : QLe(Zero, costs0[i])

\* the device type of the appliance daily_costs[idx] belongs to
TypeOfCost(idx) == dicts0[appliances[valid_indices[idx]]].device_type

InPhaseBReturn == Returned /\ path \in {"balanced", "exhausted"}

\* C1: after balance_appliances returns, for a threshold > 0 and non-negative
\* daily costs, every balanceable appliance keeps at least half of the usage it
\* had when the pass started.
C1_BalanceableUsageFloor ==
    (Returned /\ QLt(Zero, max_monthly_bill) /\ NonNegativeCosts) =>
        \A o \in DOMAIN dicts :
            dicts0[o].device_type \in BalancingTypes =>
                QLe(QMul(Half, dicts0[o].usage), dicts[o].usage)

\* C5: balance_appliances never changes a field of an excluded appliance
\* (Refrigerator, Washing Machine, Smart Plug) nor its entry of daily_costs, in
\* any state of any path.
C5_ExcludedUntouched ==
    /\ \A o \in DOMAIN dicts :
          dicts0[o].device_type \in ExcludedTypes => dicts[o] = dicts0[o]
    /\ DOMAIN daily_costs = DOMAIN costs0
    /\ \A idx \in DOMAIN costs0 :
          TypeOfCost(idx) \in ExcludedTypes => daily_costs[idx] = costs0[idx]

\* C5 witness: a pass that went through Phase B and adjusted something while an
\* excluded appliance with positive usage and cost was present.
C5_Witness ==
    /\ InPhaseBReturn
    /\ adjustments # <<>>
    /\ \E idx \in DOMAIN costs0 :
          /\ TypeOfCost(idx) \in ExcludedTypes
          /\ QLt(Zero, costs0[idx])
          /\ QLt(Zero, dicts0[appliances[valid_indices[idx]]].usage)

\* C7: when the monthly bill of the input (sum of daily costs x 30) is within
\* the threshold, the pass changes no appliance and no daily cost, records no
\* adjustment and returns the input list.
C7_NoOpWithinThreshold ==
    QLe(SumTimes30(costs0), max_monthly_bill) =>
        /\ dicts = dicts0
        /\ daily_costs = costs0
        /\ adjustments = <<>>
        /\ Returned => adjusted_appliances = appliances

\* C7 witness: a returned pass on a positive bill within a positive threshold,
\* with an appliance of the capped class in use.
C7_Witness ==
    /\ Returned
    /\ QLt(Zero, SumTimes30(costs0))
    /\ QLe(SumTimes30(costs0), max_monthly_bill)
    /\ \E idx \in DOMAIN costs0 :
          /\ TypeOfCost(idx) \notin (ExcludedTypes \cup BalancingTypes)
          /\ QLt(Zero, costs0[idx])
          /\ QLt(Zero, dicts0[appliances[valid_indices[idx]]].usage)

\* the balanceable budget of the input, threshold - 0.2 threshold - excluded x 30
InputBalanceableBudget ==
    RemainingBudget(max_monthly_bill, costs0,
                    SelectSeq(Enumerated(valid_indices),
                              LAMBDA p : TypeOfCost(p[1]) \in ExcludedTypes))

\* C8: with threshold > 0, undivided bill (sum x 30) over the threshold, a
\* positive balanceable budget and a balanceable appliance of positive cost and
\* usage, the pass makes at least one adjustment.
C8_UndividedBillAtEntry ==
    ( /\ Returned
      /\ NonNegativeCosts
      /\ QLt(Zero, max_monthly_bill)
      /\ QLt(max_monthly_bill, SumTimes30(costs0))
      /\ QLt(Zero, InputBalanceableBudget)
      /\ \E idx \in DOMAIN costs0 :
            /\ TypeOfCost(idx) \in BalancingTypes
            /\ QLt(Zero, costs0[idx])
            /\ QLt(Zero, dicts0[appliances[valid_indices[idx]]].usage) )
    => adjustments # <<>>

\* every balancing appliance of positive cost per minute is at usage 0, the
\* least the loop permits
PositiveCostAppliancesAtMinimum ==
    \A k \in DOMAIN balancing_indices :
        QLt(Zero, cost_per_minute[k]) =>
            dicts[adjusted_appliances[balancing_indices[k][2]]].usage = Zero

SingleHeaterOverThreshold ==
    /\ Len(appliances) = 1
    /\ valid_indices = <<1>>
    /\ dicts0[1].device_type = "Heater"
    /\ QLt(Zero, dicts0[1].usage)
    /\ QLt(Zero, max_monthly_bill)
    /\ QLt(max_monthly_bill, SumTimes30(costs0))

\* C11: for a single Heater with bill M = daily cost x 30 > threshold T > 0,
\* the pass returns with usage = original usage x max(T / M, 0.5) and with
\* bill (sum x 30 of the rescaled daily costs) = max(T, M / 2).
C11_SingleHeaterProportional ==
    (Returned /\ SingleHeaterOverThreshold) =>
        /\ dicts[1].usage =
               QMul(dicts0[1].usage,
                    QMax(QDiv(max_monthly_bill, SumTimes30(costs0)), Half))
        /\ SumTimes30(daily_costs) =
               QMax(max_monthly_bill, QMul(SumTimes30(costs0), Half))

\* C13: with non-negative daily costs, no step of balance_appliances increases
\* an appliance's daily cost, and every Phase B iteration ends with a total
\* monthly bill (sum of daily_costs x 30) no larger than the one it began with.
C13_BillNonIncreasing ==
    [][ NonNegativeCosts =>
          /\ \A idx \in DOMAIN daily_costs :
                QLe(daily_costs'[idx], daily_costs[idx])
          /\ pc = "phaseB" =>
                QLe(SumTimes30(daily_costs'), SumTimes30(daily_costs)) ]_vars

\* C13 witness: Phase B iterations have run on non-negative costs and lowered
\* the daily cost of an appliance
C13_Witness ==
    /\ pc = "phaseB"
    /\ iterations >= 1
    /\ NonNegativeCosts
    /\ \E idx \in DOMAIN daily_costs : QLt(daily_costs[idx], costs0[idx])

\* ------------------------------------------------------------------------
\* BillCalculator.adjust_usage_for_threshold (lastestProduct), called again and
\* again on its own output with the same threshold
\* ------------------------------------------------------------------------
MaxPasses == 2

\* lines 86-90
ReductionFactor(limit, dc) ==
    LET target_daily_cost == QDiv(limit, QInt(30))
        current_daily_cost == QSum(dc)
    IN  IF QLt(Zero, current_daily_cost)
        THEN QDiv(target_daily_cost, current_daily_cost)
        ELSE QInt(1)

\* line 116
MinAllowedUsage(original_usage_minutes) == QMul(original_usage_minutes, Half)

\* lines 112-117
MaxAllowedUsage(daily_cost, reduction_factor, cost_per_minute_val, original_usage_minutes) ==
    LET target_daily_cost_for_appliance == QMul(daily_cost, reduction_factor)
        max_allowed_usage_minutes ==
            QDiv(target_daily_cost_for_appliance, cost_per_minute_val)
    IN  QMax(max_allowed_usage_minutes, MinAllowedUsage(original_usage_minutes))

\* the for loop of lines 105-137 from index idx on; st = [d, dc, adj]
RECURSIVE AdjustLoop(_, _, _, _, _, _)
AdjustLoop(idx, st, list, vi, cpm, reduction_factor) ==
    IF idx > Len(vi) \/ idx > Len(st.dc) THEN st
    ELSE
      LET obj == list[vi[idx]]
          daily_cost == st.dc[idx]
          original_usage_minutes == st.d[obj].usage
          new_usage_minutes ==
              MaxAllowedUsage(daily_cost, reduction_factor, cpm[idx],
                              original_usage_minutes)
          next ==
              IF QLe(cpm[idx], Zero) THEN st
              ELSE IF QLt(new_usage_minutes, original_usage_minutes)
              THEN [d   |-> SetUsage(st.d, obj, new_usage_minutes),
                    dc  |-> ScaleCost(st.dc, idx, new_usage_minutes, original_usage_minutes),
                    adj |-> DictSet(st.adj, vi[idx],
                                    Message("Maximum allowed usage time", new_usage_minutes,
                                            original_usage_minutes, original_usage_minutes))]
              ELSE st
      IN  AdjustLoop(idx + 1, next, list, vi, cpm, reduction_factor)

\* one call of adjust_usage_for_threshold, lines 71-143
AdjustUsageForThreshold ==
    /\ pc = "call"
    /\ passes < MaxPasses
    /\ adjusted_appliances' = appliances
    /\ total_monthly_bill' = calculate_monthly_bill(daily_costs)[1]
    /\ IF EntryNoAdjustment(total_monthly_bill', max_monthly_bill)
       THEN /\ adjustments' = <<>>
            /\ path' = "no_adjustment"
            /\ UNCHANGED <<dicts, daily_costs>>
       ELSE LET n == IF Len(daily_costs) < Len(valid_indices)
                     THEN Len(daily_costs) ELSE Len(valid_indices)
                cpm == [idx \in 1 .. n |->
                          CostPerMinute(dicts, appliances, daily_costs,
                                        <<idx, valid_indices[idx]>>)]
                st == AdjustLoop(1, [d |-> dicts, dc |-> daily_costs, adj |-> <<>>],
                                 appliances, valid_indices, cpm,
                                 ReductionFactor(max_monthly_bill, daily_costs))
            IN  /\ dicts' = st.d
                /\ daily_costs' = st.dc
                /\ adjustments' = st.adj
                /\ path' = "adjusted"
    /\ passes' = passes + 1
    /\ UNCHANGED <<appliances, valid_indices, max_monthly_bill, excluded_indices,
                   balancing_indices, other_indices, cost_per_minute, pc,
                   dicts0, costs0, iterations, processor_vars>>

NextAdjust == AdjustUsageForThreshold

SpecAdjust == Init /\ [][NextAdjust]_vars

\* C2: after any number of successive adjust_usage_for_threshold passes on its
\* own output, every appliance's usage is at least half of the usage it had
\* before the first pass.
C2_FloorAgainstOriginal ==
    \A o \in DOMAIN dicts : QLe(QMul(Half, dicts0[o].usage), dicts[o].usage)

\* the daily costs at the call, those of the appliances not excluded as zero
ExcludedCosts0 ==
    [idx \in DOMAIN costs0 |->
        IF TypeOfCost(idx) \in ExcludedTypes THEN costs0[idx] ELSE Zero]

\* C15: whenever threshold - 0.2 x threshold - (excluded daily costs x 30) <= 0
\* for the arguments of the call, balance_appliances leaves every appliance and
\* every daily cost as it was and its adjustments mapping stays empty.
C15_InfeasibleUnchanged ==
    QLe(QSub(QSub(max_monthly_bill, QMul(max_monthly_bill, <<1, 5>>)),
             QMul(QSum(ExcludedCosts0), QInt(30))), Zero) =>
        /\ dicts = dicts0
        /\ daily_costs = costs0
        /\ adjustments = <<>>

\* C15 witness: a Refrigerator and a Heater in use, the threshold positive and
\* below the Refrigerator's own monthly cost, the bill seen at entry over the
\* threshold; the call has returned through the "cannot balance" return.
C15_Witness ==
    /\ Returned
    /\ path = "infeasible"
    /\ Len(costs0) = 2
    /\ \E i, j \in DOMAIN costs0 :
          /\ TypeOfCost(i) = "Refrigerator"
          /\ TypeOfCost(j) = "Heater"
          /\ QLt(max_monthly_bill, QMul(costs0[i], QInt(30)))
          /\ QLt(Zero, costs0[j])
          /\ QLt(Zero, dicts0[appliances[valid_indices[j]]].usage)
    /\ dicts = dicts0
    /\ daily_costs = costs0

\* what balance_appliances returns: the list of appliance dicts and the
\* adjustments mapping (lines 45, 78 and 207 return the same pair of names)
ReturnValue ==
    <<[i \in DOMAIN adjusted_appliances |-> dicts[adjusted_appliances[i]]],
      adjustments>>

\* what the "no adjustments needed" return of line 45 gives for the same
\* appliances: the copied list and the empty mapping
NoAdjustmentReturn == <<[i \in DOMAIN appliances |-> dicts0[appliances[i]]], <<>>>>

\* C16: the value balance_appliances returns through the "cannot balance"
\* return differs from the value it returns for the same appliances when no
\* adjustment is needed.
C16_InfeasibleReported ==
    (Returned /\ path = "infeasible") => ReturnValue # NoAdjustmentReturn

\* the <<idx, orig_idx>> pairs of the capped appliances of the call
CappedPairs0 ==
    SelectSeq(Enumerated(valid_indices),
              LAMBDA p : TypeOfCost(p[1]) \notin ExcludedTypes \cup BalancingTypes)

Usage0(p) == dicts0[appliances[p[2]]].usage

\* cost per minute of a capped appliance at the call, 0 when it is not in use
CostPerMinute0(p) ==
    IF QLt(Zero, Usage0(p)) THEN QDiv(costs0[p[1]], Usage0(p)) ELSE Zero

CappedTotal0 ==
    QSum(SelectSeq([k \in DOMAIN CappedPairs0 |-> CostPerMinute0(CappedPairs0[k])],
                   LAMBDA c : QLt(Zero, c)))

\* the usage cap as a function of the threshold and the capped appliances'
\* costs per minute alone
UsageCap(c) ==
    QDiv(QMul(QDiv(c, CappedTotal0),
              QDiv(QMul(max_monthly_bill, <<1, 5>>), QInt(30))), c)

AfterPhaseA == pc = "recheck"

\* every capped appliance of positive cost per minute has min(usage, cap)
CapFromCappedAlone ==
    \A k \in DOMAIN CappedPairs0 :
        QLt(Zero, CostPerMinute0(CappedPairs0[k])) =>
            dicts[appliances[CappedPairs0[k][2]]].usage =
                QMin(Usage0(CappedPairs0[k]), UsageCap(CostPerMinute0(CappedPairs0[k])))

\* monthly cost of the capped appliances selected by InUse
CappedMonthlyCost(InUse(_)) ==
    QMul(QSum([k \in DOMAIN CappedPairs0 |->
                  IF InUse(CappedPairs0[k]) THEN daily_costs[CappedPairs0[k][1]]
                  ELSE Zero]), QInt(30))

\* C17 as stated: after Phase A, for non-negative costs, the capped appliances'
\* daily costs x 30 sum to at most 0.2 x threshold, and each cap is a function
\* of the threshold and the capped appliances' costs per minute alone.
C17_Original ==
    (AfterPhaseA /\ NonNegativeCosts) =>
        /\ QLe(CappedMonthlyCost(LAMBDA p : TRUE), QMul(max_monthly_bill, <<1, 5>>))
        /\ CapFromCappedAlone

\* the call is evaluated in real arithmetic
RealArithmetic ==
    /\ Bits(max_monthly_bill) = 0
    /\ \A idx \in DOMAIN costs0 : Bits(costs0[idx]) = 0

\* C17: after Phase A, for non-negative costs, each cap is a function of the
\* threshold and the capped appliances' costs per minute alone; and, in real
\* arithmetic, the daily costs x 30 of the capped appliances that were in use
\* at the call (usage > 0) sum to at most 0.2 x threshold.
C17_CappedInUseWithinShare ==
    (AfterPhaseA /\ NonNegativeCosts) =>
        /\ CapFromCappedAlone
        /\ RealArithmetic =>
              QLe(CappedMonthlyCost(LAMBDA p : QLt(Zero, Usage0(p))),
                  QMul(max_monthly_bill, <<1, 5>>))

\* C17 witness: Phase A has capped a capped appliance while a balanceable
\* appliance of positive cost is in the list
C17_Witness ==
    /\ AfterPhaseA
    /\ NonNegativeCosts
    /\ \E k \in DOMAIN CappedPairs0 :
          QLt(dicts[appliances[CappedPairs0[k][2]]].usage, Usage0(CappedPairs0[k]))
    /\ \E idx \in DOMAIN costs0 :
          TypeOfCost(idx) \in BalancingTypes /\ QLt(Zero, costs0[idx])

\* C18: calculate_monthly_bill(daily_costs) returns the sum of the daily costs
\* x 30 as its total and each daily cost x 30 as the per-appliance monthly
\* cost, in the BillCalculator of lastestProduct (whose result the entry of
\* balance_appliances has just stored) and in the one of application.
C18_MonthlyBillTimes30 ==
    pc = "classify" =>
        /\ total_monthly_bill = QMul(QSum(daily_costs), QInt(30))
        /\ calculate_monthly_bill(daily_costs)[2] =
              [i \in DOMAIN daily_costs |-> QMul(daily_costs[i], QInt(30))]
        /\ application_calculate_monthly_bill(daily_costs) =
              <<QMul(QSum(daily_costs), QInt(30)),
                [i \in DOMAIN daily_costs |-> QMul(daily_costs[i], QInt(30))]>>

\* C19: during and after a call of balance_appliances every record reached
\* through the caller's `appliances` list has the usage it had at the call.
C19_InputKeepsUsage ==
    \A i \in DOMAIN appliances :
        dicts[appliances[i]].usage = dicts0[appliances[i]].usage

\* C21: when balance_appliances has returned, adjustments has an entry for
\* appliance index i exactly when the usage of appliances[i] is strictly lower
\* than at the call, and no index has two entries.
C21_AdjustmentIffReduced ==
    Returned =>
        /\ \A i \in DOMAIN appliances :
              (i \in DictKeys(adjustments)) <=>
                  QLt(dicts[appliances[i]].usage, dicts0[appliances[i]].usage)
        /\ \A a, b \in DOMAIN adjustments :
              a # b => adjustments[a][1] # adjustments[b][1]

\* C21 witness: Phase B has returned after two or more iterations on
\* non-negative costs, so an appliance was reduced in more than one of them
C21_Witness ==
    /\ Returned
    /\ NonNegativeCosts
    /\ iterations >= 2
    /\ adjustments # <<>>

\* C22: the adjustments mapping balance_appliances returns enumerates its
\* entries in ascending appliance-index order.
C22_AdjustmentsAscending ==
    Returned =>
        \A a, b \in DOMAIN adjustments :
            a < b => adjustments[a][1] < adjustments[b][1]

\* the number of places at which pair p stands in list
Occurrences(list, p) == Cardinality({k \in DOMAIN list : list[k] = p})

\* the state the classification loop of lines 55-65 leaves
Classified == pc = "phaseA" \/ (pc = "done" /\ path = "infeasible")

\* C23: after the classification loop every <<idx, orig_idx>> pair of
\* valid_indices stands exactly once in exactly one of the three lists: in
\* excluded_indices for an excluded device type, in balancing_indices for a
\* balancing one, in other_indices for any other; no appliance and no daily
\* cost has changed.
C23_ClassificationPartitions ==
    Classified =>
        /\ \A k \in DOMAIN valid_indices :
              LET p == <<k, valid_indices[k]>>
                  ty == dicts0[appliances[valid_indices[k]]].device_type
              IN  /\ Occurrences(excluded_indices, p) + Occurrences(balancing_indices, p)
                        + Occurrences(other_indices, p) = 1
                  /\ Occurrences(excluded_indices, p) = 1 <=> ty \in ExcludedTypes
                  /\ Occurrences(balancing_indices, p) = 1 <=> ty \in BalancingTypes
                  /\ Occurrences(other_indices, p) = 1 <=>
                        ty \notin ExcludedTypes \cup BalancingTypes
        /\ Len(excluded_indices) + Len(balancing_indices) + Len(other_indices)
              = Len(valid_indices)
        /\ dicts = dicts0
        /\ daily_costs = costs0

\* C23 witness: a Refrigerator and a device type of neither named list have
\* been classified
C23_Witness ==
    /\ Classified
    /\ excluded_indices # <<>>
    /\ other_indices # <<>>
    /\ \E k \in DOMAIN other_indices :
          dicts[appliances[other_indices[k][2]]].device_type
              \notin ExcludedTypes \cup BalancingTypes

\* an appliance dict without its "Usage Duration (minutes)"
OtherFields(a) ==
    <<a.device_type, a.power, a.room, a.temperature, a.humidity, a.on_off>>

\* C24: during and after a call of balance_appliances every appliance has the
\* device type, power, room, temperature, humidity and on/off status it had
\* at the call, and an appliance whose index is not in valid_indices has its
\* usage too.
C24_OnlyUsageWritten ==
    /\ \A i \in DOMAIN appliances :
          OtherFields(dicts[appliances[i]]) = OtherFields(dicts0[appliances[i]])
    /\ \A i \in DOMAIN appliances :
          (\A k \in DOMAIN valid_indices : valid_indices[k] # i) =>
              dicts[appliances[i]] = dicts0[appliances[i]]

\* C24 witness: the call has returned with the usage of a capped appliance
\* reduced while an appliance outside valid_indices is in the list
C24_Witness ==
    /\ Returned
    /\ \E i \in DOMAIN appliances :
          /\ dicts0[appliances[i]].device_type \notin ExcludedTypes \cup BalancingTypes
          /\ QLt(dicts[appliances[i]].usage, dicts0[appliances[i]].usage)
    /\ \E i \in DOMAIN appliances : \A k \in DOMAIN valid_indices : valid_indices[k] # i

\* usage of the appliance behind the k-th pair of balancing_indices in d
BalancingUsage(d, k) == d[adjusted_appliances[balancing_indices[k][2]]].usage

\* C25: a Phase B iteration, in real arithmetic, that reduces an appliance and
\* leaves every balanceable appliance that was in use with a positive usage
\* (none is clamped at the floor 0) ends with the monthly bill equal to the
\* threshold.
C25_IterationLandsOnThreshold ==
    [][(/\ pc = "phaseB"
        /\ iterations' = iterations + 1
        /\ RealArithmetic
        /\ NonNegativeCosts
        /\ dicts' # dicts
        /\ \A k \in DOMAIN balancing_indices :
              QLt(Zero, BalancingUsage(dicts, k)) => QLt(Zero, BalancingUsage(dicts', k)))
       => SumTimes30(daily_costs') = max_monthly_bill]_vars

\* the positions of balancing_indices whose appliance has usage 0 in heap d
AtFloor(d) ==
    {k \in DOMAIN balancing_indices : BalancingUsage(d, k) = Zero}

\* iterations of the while loop of lines 147-204 started so far, the one that
\* breaks at line 161 included
IterationsStarted ==
    iterations + (IF pc = "done" /\ path = "exhausted" THEN 1 ELSE 0)

\* C28: for non-negative daily costs (usage is never negative) every Phase B
\* iteration that leaves the bill above the threshold brings at least one more
\* balanceable appliance to usage 0, and the loop has started at most
\* (number of balanceable appliances + 1) iterations when it is left.
C28_PhaseBTerminates ==
    [][NonNegativeCosts =>
         /\ (pc = "phaseB" /\ iterations' = iterations + 1
                /\ QLt(max_monthly_bill, total_monthly_bill'))
               => Cardinality(AtFloor(dicts')) > Cardinality(AtFloor(dicts))
         /\ (pc = "phaseB" /\ pc' \in {"phaseB", "done"})
               => IterationsStarted' <= Len(balancing_indices) + 1]_vars

\* Phase B ran two iterations on two balanceable appliances: the first brought
\* one of them to 0 with the bill still above the threshold
C28_Witness ==
    /\ Returned /\ NonNegativeCosts
    /\ iterations = 2
    /\ Len(balancing_indices) = 2
    /\ AtFloor(dicts) # {}

\* ------------------------------------------------------------------------
\* balance_appliances called again on what it returned: the returned list, the
\* daily_costs array as the pass left it, the same threshold and valid_indices
\* ------------------------------------------------------------------------
RepeatDeviceTypes == {"Refrigerator", "Heater", "Smart Bulb"}

\* the arithmetic of a run: real numbers (0) or floats of MantissaBits bits
Arithmetics == {0, MantissaBits}

\* the input value x in the arithmetic of the run
Float(x, bits) == Round(x, bits)

RepeatUsageValues(bits) == {Float(QInt(0), bits), Float(QInt(7), bits)}

RepeatCostValues(bits) ==
    {Float(<<13, 80>>, bits), Float(QInt(1), bits), Float(QInt(4), bits)}

RepeatThresholds(bits) == {Float(QInt(6), bits), Float(QInt(12), bits)}

RepeatDicts(bits) ==
    [device_type : RepeatDeviceTypes, power : PowerValues,
     usage : RepeatUsageValues(bits), room : RoomLocations,
     temperature : Temperatures, humidity : Humidities, on_off : Statuses]

BalanceAgain ==
    /\ pc = "done"
    /\ passes + 1 < MaxPasses
    /\ passes' = passes + 1
    /\ appliances' = adjusted_appliances
    /\ dicts0' = dicts
    /\ costs0' = daily_costs
    /\ iterations' = 0
    /\ adjusted_appliances' = <<>>
    /\ adjustments' = <<>>
    /\ total_monthly_bill' = Zero
    /\ excluded_indices' = <<>>
    /\ balancing_indices' = <<>>
    /\ other_indices' = <<>>
    /\ cost_per_minute' = <<>>
    /\ pc' = "call"
    /\ path' = "none"
    /\ UNCHANGED <<dicts, daily_costs, valid_indices, max_monthly_bill,
                   processor_vars>>

\* a first call, in real or in floating-point arithmetic
InitRepeat ==
    /\ \E bits \in Arithmetics :
         /\ \E n \in 0 .. MaxAppliances :
              /\ dicts \in [1 .. n -> RepeatDicts(bits)]
              /\ appliances = [i \in 1 .. n |-> i]
              /\ \E V \in SUBSET (1 .. n) :
                   /\ valid_indices = SortedSeq(V)
                   /\ daily_costs \in [1 .. Cardinality(V) -> RepeatCostValues(bits)]
         /\ max_monthly_bill \in RepeatThresholds(bits)
    /\ adjusted_appliances = <<>>
    /\ adjustments = <<>>
    /\ total_monthly_bill = Zero
    /\ excluded_indices = <<>>
    /\ balancing_indices = <<>>
    /\ other_indices = <<>>
    /\ cost_per_minute = <<>>
    /\ pc = "call"
    /\ path = "none"
    /\ dicts0 = dicts
    /\ costs0 = daily_costs
    /\ iterations = 0
    /\ passes = 0
    /\ dp_appliances = <<>>
    /\ threshold = Zero
    /\ sorted_appliances = <<>>
    /\ total_cost = Zero
    /\ model = "none"
    /\ dp_appliances0 = <<>>
    /\ calls = 0

NextRepeat ==
    \/ Enter
    \/ Classify
    \/ PhaseA
    \/ Recheck
    \/ BalanceIteration
    \/ LoopBreak
    \/ LoopExit
    \/ BalanceAgain

SpecRepeat == InitRepeat /\ [][NextRepeat]_vars

\* C12: a second balance_appliances pass on the output of the first (returned
\* appliances, daily_costs as left, same threshold and valid_indices) changes
\* no usage value and returns an empty adjustments mapping.
C12_SecondPassIdle ==
    (Returned /\ passes >= 1) =>
        /\ \A o \in DOMAIN dicts : dicts[o].usage = dicts0[o].usage
        /\ adjustments = <<>>

\* ------------------------------------------------------------------------
\* DataProcessor.predict_costs and DataProcessor.apply_threshold (finalProduct)
\* Costs on the appliance dicts are monthly (daily prediction x 30).
\* ------------------------------------------------------------------------
MaxCalls == 2

HighCostDevices == {"Heater", "Air Conditioner", "Microwave", "Washing Machine"}

ProcessorDeviceTypes == {"Heater", "Washing Machine", "TV"}

ProcessorPowerValues == {QInt(1), QInt(100)}

ProcessorUsageValues == {QInt(0), QInt(2)}

ProcessorThresholds == {QInt(-5), QInt(0), QInt(130), QInt(250)}

\* self.model: linear in power and usage, constant per device type, or an
\* arbitrary regressor that answers some value of OracleCosts in each round
\* of predictions.  A fourth, "signed", is constant per device type with a
\* negative prediction for one of them, as a fitted regressor can give.
CostModels == {"linear", "flat", "oracle"}

OracleCosts == {QInt(-1), QInt(0), QInt(4)}

Rate(device_type) == IF device_type = "Heater" THEN QInt(60) ELSE QInt(1)

\* self.model.predict(df_scaled)[0] for one appliance: its daily cost
Predict(kind, device_type, power_watts, usage_minutes, answer) ==
    CASE kind = "linear" ->
           QDiv(QMul(Rate(device_type),
                     QMul(power_watts, QDiv(usage_minutes, QInt(60)))), QInt(30))
      [] kind = "flat" -> QDiv(Rate(device_type), QInt(15))
      [] kind = "signed" -> IF device_type = "Heater" THEN QInt(-1) ELSE QInt(6)
      [] OTHER -> answer

\* the answers an arbitrary regressor may give in one round for n appliances
Answers(kind, n) ==
    IF kind = "oracle"
    THEN {[i \in 1 .. n |-> c] : c \in OracleCosts}
    ELSE {[i \in 1 .. n |-> Zero]}

\* predict_costs for valid device types, lines 54-60
Predicted(kind, device_type, power_watts, daily_usage_hours, answer) ==
    LET predicted_cost ==
            QMul(Predict(kind, device_type, power_watts,
                         QMul(daily_usage_hours, QInt(60)), answer), QInt(30))
    IN  [device_type          |-> device_type,
         power_watts          |-> power_watts,
         daily_usage_hours    |-> daily_usage_hours,
         predicted_cost       |-> predicted_cost,
         adjusted_usage_hours |-> daily_usage_hours,
         adjusted_power_watts |-> power_watts,
         adjusted_cost        |-> predicted_cost,
         action               |-> <<>>,
         cost_per_hour        |-> Zero]

\* sum(appliance['adjusted_cost'] for appliance in appliances)
TotalAdjustedCost(apps) == QSum([i \in DOMAIN apps |-> apps[i].adjusted_cost])

\* sorted(appliances, key=adjusted_cost, reverse=True): the positions of the
\* dicts by descending cost, equal costs in their original order
SortedByCost(apps) ==
    CHOOSE s \in [DOMAIN apps -> DOMAIN apps] :
        /\ \A i, j \in DOMAIN apps : i # j => s[i] # s[j]
        /\ \A i, j \in DOMAIN apps :
              i < j => \/ QLt(apps[s[j]].adjusted_cost, apps[s[i]].adjusted_cost)
                       \/ /\ apps[s[j]].adjusted_cost = apps[s[i]].adjusted_cost
                          /\ s[i] < s[j]

\* lines 87-91
CostPerHour(a) ==
    IF QLt(Zero, a.daily_usage_hours)
    THEN QDiv(a.adjusted_cost, QMul(a.daily_usage_hours, QInt(30)))
    ELSE Zero

\* a usage floor of 40% in place of the 50% of lines 97, 106 and 117
UsageFloorTwoFifths(a) == QMul(a.daily_usage_hours, <<2, 5>>)

UsageFloor(a) == QMul(a.daily_usage_hours, Half)

\* a power floor one watt under the 80% of lines 146, 152 and 163
PowerFloorOneWattLower(a) == QSub(QMul(a.power_watts, <<4, 5>>), QInt(1))

\* a power floor of 50% in place of the 80% of lines 146, 152 and 163
PowerFloorHalf(a) == QMul(a.power_watts, Half)

PowerFloor(a) == QMul(a.power_watts, <<4, 5>>)

IsHighCost(a) == a.device_type \in HighCostDevices

\* lines 96-97
TotalCostPerHour(apps) ==
    QSum([i \in DOMAIN apps |->
            IF IsHighCost(apps[i]) /\ QLt(UsageFloor(apps[i]), apps[i].adjusted_usage_hours)
            THEN apps[i].cost_per_hour ELSE Zero])

\* lines 114-117
NewUsage(a, excess_cost, total_cost_per_hour) ==
    LET cost_to_reduce ==
            QMul(excess_cost, QDiv(a.cost_per_hour, total_cost_per_hour))
        hours_to_reduce == QDiv(QDiv(cost_to_reduce, a.cost_per_hour), QInt(30))
    IN  QMax(QSub(a.adjusted_usage_hours, hours_to_reduce), UsageFloor(a))

\* lines 125-136: the cost predicted again for the adjusted usage and power
Repredicted(kind, a, answer) ==
    QMul(Predict(kind, a.device_type, a.adjusted_power_watts,
                 QMul(a.adjusted_usage_hours, QInt(60)), answer), QInt(30))

\* the for loop of lines 103-137 from the k-th dict of sorted_appliances on
RECURSIVE UsageLoop(_, _, _, _, _, _, _)
UsageLoop(k, apps, order, excess_cost, total_cost_per_hour, kind, answers) ==
    IF k > Len(order) THEN apps
    ELSE
      LET i == order[k]
          a == apps[i]
          new_usage == NewUsage(a, excess_cost, total_cost_per_hour)
          reduced == [a EXCEPT !.adjusted_usage_hours = new_usage,
                               !.action = <<"Reduced usage">>]
          next ==
              IF ~IsHighCost(a) THEN apps
              ELSE IF QLe(a.adjusted_usage_hours, UsageFloor(a)) THEN apps
              ELSE IF a.cost_per_hour = Zero THEN apps
              ELSE IF QLt(new_usage, a.adjusted_usage_hours)
              THEN [apps EXCEPT ![i] =
                      [reduced EXCEPT !.adjusted_cost = Repredicted(kind, reduced, answers[i])]]
              ELSE apps
      IN  UsageLoop(k + 1, next, order, excess_cost, total_cost_per_hour, kind, answers)

CostPerWatt(a) == QDiv(a.adjusted_cost, a.adjusted_power_watts)

\* lines 144-146
TotalCostPerWatt(apps) ==
    QSum([i \in DOMAIN apps |->
            IF IsHighCost(apps[i]) /\ QLt(PowerFloor(apps[i]), apps[i].adjusted_power_watts)
            THEN CostPerWatt(apps[i]) ELSE Zero])

\* lines 160-163
NewPower(a, excess_cost, total_cost_per_watt) ==
    LET cost_to_reduce ==
            QMul(excess_cost, QDiv(CostPerWatt(a), total_cost_per_watt))
        watts_to_reduce == QMul(QDiv(cost_to_reduce, CostPerWatt(a)), QInt(30))
    IN  QMax(QSub(a.adjusted_power_watts, watts_to_reduce), PowerFloor(a))

\* the for loop of lines 149-183 from the k-th dict of sorted_appliances on
RECURSIVE PowerLoop(_, _, _, _, _, _, _)
PowerLoop(k, apps, order, excess_cost, total_cost_per_watt, kind, answers) ==
    IF k > Len(order) THEN apps
    ELSE
      LET i == order[k]
          a == apps[i]
          new_power == NewPower(a, excess_cost, total_cost_per_watt)
          reduced == [a EXCEPT !.adjusted_power_watts = new_power,
                               !.action = Append(a.action, "Reduced power")]
          next ==
              IF ~IsHighCost(a) THEN apps
              ELSE IF QLe(a.adjusted_power_watts, PowerFloor(a)) THEN apps
              ELSE IF CostPerWatt(a) = Zero THEN apps
              ELSE IF QLt(new_power, a.adjusted_power_watts)
              THEN [apps EXCEPT ![i] =
                      [reduced EXCEPT !.adjusted_cost = Repredicted(kind, reduced, answers[i])]]
              ELSE apps
      IN  PowerLoop(k + 1, next, order, excess_cost, total_cost_per_watt, kind, answers)

\* apply_threshold up to the while loop, lines 69-91
ApplyEnter ==
    /\ pc = "call"
    /\ dp_appliances0' = dp_appliances
    /\ IF QLe(threshold, Zero)
       THEN /\ pc' = "done"
            /\ path' = "skipped"
            /\ UNCHANGED <<dp_appliances, sorted_appliances, total_cost>>
       ELSE /\ total_cost' = TotalAdjustedCost(dp_appliances)
            /\ IF QLe(total_cost', threshold)
               THEN /\ pc' = "done"
                    /\ path' = "below"
                    /\ UNCHANGED <<dp_appliances, sorted_appliances>>
               ELSE /\ pc' = "usage"
                    /\ path' = "none"
                    /\ sorted_appliances' = SortedByCost(dp_appliances)
                    /\ dp_appliances' =
                          [i \in DOMAIN dp_appliances |->
                             [dp_appliances[i] EXCEPT
                                !.cost_per_hour = CostPerHour(dp_appliances[i])]]
    /\ UNCHANGED <<threshold, model, calls, balancer_vars>>

\* one iteration of the while loop, lines 94-139
UsageIteration ==
    /\ pc = "usage"
    /\ QLt(threshold, total_cost)
    /\ TotalCostPerHour(dp_appliances) # Zero
    /\ \E answers \in Answers(model, Len(dp_appliances)) :
          dp_appliances' =
              UsageLoop(1, dp_appliances, sorted_appliances,
                        QSub(total_cost, threshold),
                        TotalCostPerHour(dp_appliances), model, answers)
    /\ total_cost' = TotalAdjustedCost(dp_appliances')
    /\ UNCHANGED <<threshold, sorted_appliances, model, dp_appliances0, calls,
                   pc, path, balancer_vars>>

\* lines 99-100: no more usage adjustment is possible
UsageBreak ==
    /\ pc = "usage"
    /\ QLt(threshold, total_cost)
    /\ TotalCostPerHour(dp_appliances) = Zero
    /\ pc' = "power"
    /\ UNCHANGED <<path, processor_vars, balancer_vars>>

\* line 94: the while condition fails
UsageEnd ==
    /\ pc = "usage"
    /\ ~QLt(threshold, total_cost)
    /\ pc' = "power"
    /\ UNCHANGED <<path, processor_vars, balancer_vars>>

\* lines 141-187: the power reduction, if still over the threshold, and return
PowerPhase ==
    /\ pc = "power"
    /\ IF QLt(threshold, total_cost)
       THEN /\ \E answers \in Answers(model, Len(dp_appliances)) :
                 dp_appliances' =
                     IF QLt(Zero, TotalCostPerWatt(dp_appliances))
                     THEN PowerLoop(1, dp_appliances, sorted_appliances,
                                    QSub(total_cost, threshold),
                                    TotalCostPerWatt(dp_appliances), model, answers)
                     ELSE dp_appliances
            /\ total_cost' = TotalAdjustedCost(dp_appliances')
            /\ path' = "power"
       ELSE /\ path' = "usage"
            /\ UNCHANGED <<dp_appliances, total_cost>>
    /\ pc' = "done"
    /\ UNCHANGED <<threshold, sorted_appliances, model, dp_appliances0, calls,
                   balancer_vars>>

\* the caller invokes apply_threshold once more on the same appliances; the
\* locals of the call that returned are gone
ApplyAgain ==
    /\ pc = "done"
    /\ calls < MaxCalls
    /\ calls' = calls + 1
    /\ threshold' \in ProcessorThresholds
    /\ pc' = "call"
    /\ sorted_appliances' = <<>>
    /\ total_cost' = Zero
    /\ UNCHANGED <<dp_appliances, model, dp_appliances0, path, balancer_vars>>

\* the state predict_costs leaves, then a first call apply_threshold(appliances, threshold)
InitApply ==
    /\ model \in CostModels
    /\ \E n \in 0 .. MaxAppliances :
         \E ty \in [1 .. n -> ProcessorDeviceTypes],
            pw \in [1 .. n -> ProcessorPowerValues],
            us \in [1 .. n -> ProcessorUsageValues],
            answers \in Answers(model, n) :
              dp_appliances =
                  [i \in 1 .. n |-> Predicted(model, ty[i], pw[i], us[i], answers[i])]
    /\ threshold \in ProcessorThresholds
    /\ sorted_appliances = <<>>
    /\ total_cost = Zero
    /\ dp_appliances0 = dp_appliances
    /\ calls = 1
    /\ pc = "call"
    /\ path = "none"
    /\ dicts = <<>>
    /\ appliances = <<>>
    /\ daily_costs = <<>>
    /\ valid_indices = <<>>
    /\ max_monthly_bill = Zero
    /\ adjusted_appliances = <<>>
    /\ adjustments = <<>>
    /\ total_monthly_bill = Zero
    /\ excluded_indices = <<>>
    /\ balancing_indices = <<>>
    /\ other_indices = <<>>
    /\ cost_per_minute = <<>>
    /\ dicts0 = <<>>
    /\ costs0 = <<>>
    /\ iterations = 0
    /\ passes = 0

NextApply ==
    \/ ApplyEnter
    \/ UsageIteration
    \/ UsageBreak
    \/ UsageEnd
    \/ PowerPhase
    \/ ApplyAgain

SpecApply == InitApply /\ [][NextApply]_vars

\* ------------------------------------------------------------------------
\* apply_threshold with a re-evaluation that raises
\* ------------------------------------------------------------------------
\* The for loop of lines 103-137 when the re-evaluation (encoder, scaler or
\* model, lines 125-136) raises for the stop-th dict of sorted_appliances: the
\* dicts before it are processed as usual, then line 119 and line 121 write
\* the usage and the action and the exception leaves the loop.  No call is
\* made, and nothing raises, when that dict is not reduced.
UsageEvaluated(a, new_usage) ==
    /\ IsHighCost(a)
    /\ QLt(UsageFloor(a), a.adjusted_usage_hours)
    /\ a.cost_per_hour # Zero
    /\ QLt(new_usage, a.adjusted_usage_hours)

UsageRaised(apps, i, new_usage) ==
    [raised |-> UsageEvaluated(apps[i], new_usage),
     apps   |-> [apps EXCEPT ![i].adjusted_usage_hours = new_usage,
                             ![i].action = <<"Reduced usage">>]]

UsageRaisedIn(before, i, excess_cost, total_cost_per_hour) ==
    UsageRaised(before, i, NewUsage(before[i], excess_cost, total_cost_per_hour))

UsageLoopRaising(stop, apps, order, excess_cost, total_cost_per_hour, kind, answers) ==
    UsageRaisedIn(UsageLoop(1, apps, SubSeq(order, 1, stop - 1), excess_cost,
                            total_cost_per_hour, kind, answers),
                  order[stop], excess_cost, total_cost_per_hour)

\* the for loop of lines 149-183 when the re-evaluation of lines 171-182
\* raises for the stop-th dict: lines 165 and 167 have written the power and
\* the action
PowerEvaluated(a, new_power) ==
    /\ IsHighCost(a)
    /\ QLt(PowerFloor(a), a.adjusted_power_watts)
    /\ CostPerWatt(a) # Zero
    /\ QLt(new_power, a.adjusted_power_watts)

PowerRaised(apps, i, new_power) ==
    [raised |-> PowerEvaluated(apps[i], new_power),
     apps   |-> [apps EXCEPT ![i].adjusted_power_watts = new_power,
                             ![i].action = Append(@, "Reduced power")]]

PowerRaisedIn(before, i, excess_cost, total_cost_per_watt) ==
    PowerRaised(before, i, NewPower(before[i], excess_cost, total_cost_per_watt))

PowerLoopRaising(stop, apps, order, excess_cost, total_cost_per_watt, kind, answers) ==
    PowerRaisedIn(PowerLoop(1, apps, SubSeq(order, 1, stop - 1), excess_cost,
                            total_cost_per_watt, kind, answers),
                  order[stop], excess_cost, total_cost_per_watt)

\* an iteration of the while loop in which a re-evaluation raises: nothing in
\* apply_threshold catches, so the exception reaches the caller
UsageIterationRaises ==
    /\ pc = "usage"
    /\ QLt(threshold, total_cost)
    /\ TotalCostPerHour(dp_appliances) # Zero
    /\ \E stop \in DOMAIN sorted_appliances :
         \E answers \in Answers(model, Len(dp_appliances)) :
            \E r \in {UsageLoopRaising(stop, dp_appliances, sorted_appliances,
                                       QSub(total_cost, threshold),
                                       TotalCostPerHour(dp_appliances), model, answers)} :
                /\ r.raised
                /\ dp_appliances' = r.apps
    /\ pc' = "raised"
    /\ path' = "failure"
    /\ UNCHANGED <<threshold, sorted_appliances, total_cost, model, dp_appliances0,
                   calls, balancer_vars>>

\* the power reduction in which a re-evaluation raises
PowerPhaseRaises ==
    /\ pc = "power"
    /\ QLt(threshold, total_cost)
    /\ QLt(Zero, TotalCostPerWatt(dp_appliances))
    /\ \E stop \in DOMAIN sorted_appliances :
         \E answers \in Answers(model, Len(dp_appliances)) :
            \E r \in {PowerLoopRaising(stop, dp_appliances, sorted_appliances,
                                       QSub(total_cost, threshold),
                                       TotalCostPerWatt(dp_appliances), model, answers)} :
                /\ r.raised
                /\ dp_appliances' = r.apps
    /\ pc' = "raised"
    /\ path' = "failure"
    /\ UNCHANGED <<threshold, sorted_appliances, total_cost, model, dp_appliances0,
                   calls, balancer_vars>>

NextRaising ==
    \/ NextApply
    \/ UsageIterationRaises
    \/ PowerPhaseRaises

SpecRaising == InitApply /\ [][NextRaising]_vars

\* ------------------------------------------------------------------------
\* apply_threshold under deterministic cost models, run to completion
\* ------------------------------------------------------------------------
DeterministicModels == {"linear", "flat", "signed"}

PositiveThresholds == {t \in ProcessorThresholds : QLt(Zero, t)}

InitDeterministic ==
    /\ model \in DeterministicModels
    /\ \E n \in 0 .. MaxAppliances :
         \E ty \in [1 .. n -> ProcessorDeviceTypes],
            pw \in [1 .. n -> ProcessorPowerValues],
            us \in [1 .. n -> ProcessorUsageValues] :
              dp_appliances =
                  [i \in 1 .. n |-> Predicted(model, ty[i], pw[i], us[i], Zero)]
    /\ threshold \in PositiveThresholds
    /\ sorted_appliances = <<>>
    /\ total_cost = Zero
    /\ dp_appliances0 = dp_appliances
    /\ calls = 1
    /\ pc = "call"
    /\ path = "none"
    /\ dicts = <<>>
    /\ appliances = <<>>
    /\ daily_costs = <<>>
    /\ valid_indices = <<>>
    /\ max_monthly_bill = Zero
    /\ adjusted_appliances = <<>>
    /\ adjustments = <<>>
    /\ total_monthly_bill = Zero
    /\ excluded_indices = <<>>
    /\ balancing_indices = <<>>
    /\ other_indices = <<>>
    /\ cost_per_minute = <<>>
    /\ dicts0 = <<>>
    /\ costs0 = <<>>
    /\ iterations = 0
    /\ passes = 0

\* one call of apply_threshold
NextDeterministic ==
    \/ ApplyEnter
    \/ UsageIteration
    \/ UsageBreak
    \/ UsageEnd
    \/ PowerPhase

SpecDeterministic == InitDeterministic /\ [][NextDeterministic]_vars

\* an iteration of the usage loop is due (lines 94-100) and its body leaves
\* every appliance as it is; the model being deterministic, total_cost is
\* recomputed to the same value and the next iteration starts from the same
\* state, and so does every one after it
UsageLoopStalls ==
    /\ pc = "usage"
    /\ QLt(threshold, total_cost)
    /\ TotalCostPerHour(dp_appliances) # Zero
    /\ \A answers \in Answers(model, Len(dp_appliances)) :
          UsageLoop(1, dp_appliances, sorted_appliances,
                    QSub(total_cost, threshold),
                    TotalCostPerHour(dp_appliances), model, answers)
              = dp_appliances

\* C27: under a deterministic cost model and a threshold > 0 the usage loop
\* of apply_threshold terminates: it never starts an iteration, the total
\* cost above the threshold, that changes no appliance's adjusted usage.
C27_UsageLoopTerminates == ~UsageLoopStalls

\* ------------------------------------------------------------------------
\* Properties of DataProcessor.apply_threshold
\* ------------------------------------------------------------------------
ApplyReturned == pc = "done"

\* C3: whenever apply_threshold has returned, under any cost model and after
\* any number of calls, every appliance has
\* 0.5 x daily_usage_hours <= adjusted_usage_hours <= daily_usage_hours.
C3_UsageWithinHalf ==
    ApplyReturned =>
        \A i \in DOMAIN dp_appliances :
            /\ QLe(QMul(Half, dp_appliances[i].daily_usage_hours),
                   dp_appliances[i].adjusted_usage_hours)
            /\ QLe(dp_appliances[i].adjusted_usage_hours,
                   dp_appliances[i].daily_usage_hours)

\* a second call has returned and left an appliance that is in use at exactly
\* half of its daily usage
C3_Witness ==
    /\ ApplyReturned
    /\ calls >= 2
    /\ \E i \in DOMAIN dp_appliances :
          /\ QLt(Zero, dp_appliances[i].daily_usage_hours)
          /\ dp_appliances[i].adjusted_usage_hours =
                 QMul(Half, dp_appliances[i].daily_usage_hours)

\* C4: whenever apply_threshold has returned, under any cost model and after
\* any number of calls, every appliance has
\* adjusted_power_watts >= 0.8 x power_watts.
C4_PowerAtLeastFourFifths ==
    ApplyReturned =>
        \A i \in DOMAIN dp_appliances :
            QLe(QMul(<<4, 5>>, dp_appliances[i].power_watts),
                dp_appliances[i].adjusted_power_watts)

\* a second call has returned and left an appliance at exactly 80% of its power
C4_Witness ==
    /\ ApplyReturned
    /\ calls >= 2
    /\ \E i \in DOMAIN dp_appliances :
          dp_appliances[i].adjusted_power_watts =
              QMul(<<4, 5>>, dp_appliances[i].power_watts)

\* C6: apply_threshold leaves every appliance of an excluded category
\* (Refrigerator, Washing Machine, Smart Plug) untouched: its adjusted usage,
\* adjusted power and adjusted cost when the call returns are the ones it had
\* when the call began, for every threshold and cost model.
C6_ExcludedUntouchedByThreshold ==
    ApplyReturned =>
        \A i \in DOMAIN dp_appliances :
            dp_appliances[i].device_type \in ExcludedTypes =>
                /\ dp_appliances[i].adjusted_usage_hours =
                       dp_appliances0[i].adjusted_usage_hours
                /\ dp_appliances[i].adjusted_power_watts =
                       dp_appliances0[i].adjusted_power_watts
                /\ dp_appliances[i].adjusted_cost =
                       dp_appliances0[i].adjusted_cost

\* C10: under the linear cost model, whenever a call of apply_threshold with a
\* positive threshold returns with the total adjusted cost still above the
\* threshold, every high-cost appliance of non-zero cost is at half of its
\* daily usage and at 80% of its power.
C10_OverThresholdOnlyAtFloors ==
    ( /\ ApplyReturned
      /\ model = "linear"
      /\ QLt(Zero, threshold)
      /\ QLt(threshold, TotalAdjustedCost(dp_appliances)) ) =>
        \A i \in DOMAIN dp_appliances :
            ( /\ dp_appliances[i].device_type \in HighCostDevices
              /\ dp_appliances[i].adjusted_cost # Zero ) =>
                /\ dp_appliances[i].adjusted_usage_hours =
                       QMul(Half, dp_appliances[i].daily_usage_hours)
                /\ dp_appliances[i].adjusted_power_watts =
                       QMul(<<4, 5>>, dp_appliances[i].power_watts)

\* ------------------------------------------------------------------------
\* Either entry point: a call of balance_appliances (model = "none") or calls
\* of apply_threshold
\* ------------------------------------------------------------------------
\* C20: when a re-evaluation inside apply_threshold raises, the step that
\* ends with the exception leaves no appliance whose adjusted_usage_hours or
\* adjusted_power_watts it changed with the adjusted_cost it had before.
C20_NoInterimStateOnFailure ==
    [][pc' = "raised" =>
         \A i \in DOMAIN dp_appliances :
            (\/ dp_appliances'[i].adjusted_usage_hours # dp_appliances[i].adjusted_usage_hours
             \/ dp_appliances'[i].adjusted_power_watts # dp_appliances[i].adjusted_power_watts)
            => dp_appliances'[i].adjusted_cost # dp_appliances[i].adjusted_cost]_vars

InitEither == Init \/ InitApply

NextEither ==
    \/ model = "none" /\ Next
    \/ model # "none" /\ NextApply

SpecEither == InitEither /\ [][NextEither]_vars

\* C14: with a threshold <= 0, balance_appliances changes no appliance and no
\* daily cost, records no adjustment and returns its input through the
\* "no adjustments needed" return; apply_threshold returns through its
\* "threshold not set" return with every appliance dict as it was at the call.
C14_NonPositiveThresholdSkips ==
    /\ (model = "none" /\ QLe(max_monthly_bill, Zero)) =>
          /\ dicts = dicts0
          /\ daily_costs = costs0
          /\ adjustments = <<>>
          /\ pc \in {"call", "done"}
          /\ Returned => (path = "no_adjustment" /\ adjusted_appliances = appliances)
    /\ (model # "none" /\ QLe(threshold, Zero)) =>
          /\ pc \in {"call", "done"}
          /\ ApplyReturned => (path = "skipped" /\ dp_appliances = dp_appliances0)

\* C14 witness: balance_appliances has returned from a call with a negative
\* threshold and a positive bill, a balanceable appliance being in use at a
\* positive cost
C14_Witness ==
    /\ model = "none"
    /\ Returned
    /\ QLt(max_monthly_bill, Zero)
    /\ QLt(Zero, SumTimes30(costs0))
    /\ \E idx \in DOMAIN costs0 :
          /\ TypeOfCost(idx) \in BalancingTypes
          /\ QLt(Zero, costs0[idx])
          /\ QLt(Zero, dicts0[appliances[valid_indices[idx]]].usage)

\* the monthly bill of the daily costs dc
MonthlyBill(dc) == QSum([i \in DOMAIN dc |-> QMul(dc[i], QInt(30))])

\* some appliance of the given policy class has its usage changed by the step
UsageChanges(types) ==
    \E i \in DOMAIN appliances :
        /\ dicts0[appliances[i]].device_type \in types
        /\ dicts'[appliances[i]].usage # dicts[appliances[i]].usage

AdjustedUsageChanges ==
    \E i \in DOMAIN dp_appliances :
        dp_appliances'[i].adjusted_usage_hours # dp_appliances[i].adjusted_usage_hours

AdjustedPowerChanges ==
    \E i \in DOMAIN dp_appliances :
        dp_appliances'[i].adjusted_power_watts # dp_appliances[i].adjusted_power_watts

\* no appliance has a power other than the one it had when the call began
PowerAsAtCall(apps) ==
    \A i \in DOMAIN apps :
        apps[i].adjusted_power_watts = dp_appliances0[i].adjusted_power_watts

\* C26: in balance_appliances a step changes the usage of a balanceable
\* appliance only in Phase B, with the bill of the daily costs Phase A left
\* (and of every later iteration) over the threshold, and a capped appliance
\* only in Phase A, before Phase B; in apply_threshold a step changes a power
\* only after the usage loop has ended, with the total adjusted cost over the
\* threshold, and changes a usage only while no power has been changed since
\* the call began.
C26_PhasesInOrder ==
    [][/\ (model = "none" /\ UsageChanges(BalancingTypes)) =>
              /\ pc = "phaseB"
              /\ QLt(max_monthly_bill, MonthlyBill(daily_costs))
       /\ (model = "none" /\ UsageChanges(DeviceTypes \ (ExcludedTypes \cup BalancingTypes))) =>
              /\ pc = "phaseA"
              /\ iterations = 0
       /\ (model # "none" /\ AdjustedPowerChanges) =>
              /\ pc = "power"
              /\ ~AdjustedUsageChanges
              /\ QLt(threshold, TotalAdjustedCost(dp_appliances))
       /\ (model # "none" /\ AdjustedUsageChanges) =>
              /\ pc = "usage"
              /\ PowerAsAtCall(dp_appliances)
              /\ PowerAsAtCall(dp_appliances')]_vars

\* C26 witness: apply_threshold has returned from a call in which it reduced
\* a usage and then a power
C26_Witness ==
    /\ model # "none"
    /\ ApplyReturned
    /\ \E i \in DOMAIN dp_appliances :
          QLt(dp_appliances[i].adjusted_usage_hours,
              dp_appliances0[i].adjusted_usage_hours)
    /\ \E i \in DOMAIN dp_appliances :
          QLt(dp_appliances[i].adjusted_power_watts,
              dp_appliances0[i].adjusted_power_watts)

\* ------------------------------------------------------------------------
\* The divisors of balance_appliances and apply_threshold
\* ------------------------------------------------------------------------
\* appliance['power_watts'] with a device that draws no power
ZeroPowerValues == {QInt(0), QInt(100)}

InitZeroPower ==
    /\ model \in CostModels
    /\ \E n \in 0 .. MaxAppliances :
         \E ty \in [1 .. n -> ProcessorDeviceTypes],
            pw \in [1 .. n -> ZeroPowerValues],
            us \in [1 .. n -> ProcessorUsageValues],
            answers \in Answers(model, n) :
              dp_appliances =
                  [i \in 1 .. n |-> Predicted(model, ty[i], pw[i], us[i], answers[i])]
    /\ threshold \in ProcessorThresholds
    /\ sorted_appliances = <<>>
    /\ total_cost = Zero
    /\ dp_appliances0 = dp_appliances
    /\ calls = 1
    /\ pc = "call"
    /\ path = "none"
    /\ dicts = <<>>
    /\ appliances = <<>>
    /\ daily_costs = <<>>
    /\ valid_indices = <<>>
    /\ max_monthly_bill = Zero
    /\ adjusted_appliances = <<>>
    /\ adjustments = <<>>
    /\ total_monthly_bill = Zero
    /\ excluded_indices = <<>>
    /\ balancing_indices = <<>>
    /\ other_indices = <<>>
    /\ cost_per_minute = <<>>
    /\ dicts0 = <<>>
    /\ costs0 = <<>>
    /\ iterations = 0
    /\ passes = 0

InitDivisions == Init \/ InitZeroPower

SpecDivisions == InitDivisions /\ [][NextEither]_vars

\* lines 84-85 and 141-142: usage_minutes, where it divides the daily cost
UsageDivisors(d, list, pairs) ==
    {d[list[pairs[k][2]]].usage :
        k \in {j \in DOMAIN pairs : QLt(Zero, d[list[pairs[j][2]]].usage)}}

\* lines 97-121 for one pair: total_cost_per_minute_others (105),
\* cost_per_minute_val (106), original_usage_minutes (112, 120)
CapDivisors(original_usage_minutes, cost_per_minute_val, total_others, limit) ==
    IF QLe(original_usage_minutes, Zero) \/ QLe(cost_per_minute_val, Zero) THEN {}
    ELSE {total_others, cost_per_minute_val}
         \cup (IF QLt(CappedUsage(original_usage_minutes, cost_per_minute_val,
                                  total_others, limit), original_usage_minutes)
               THEN {original_usage_minutes} ELSE {})

\* the divisors of lines 80-123, each pair of other_indices met in the state
\* the pairs before it have left
PhaseADivisors(cpm) ==
    UsageDivisors(dicts, adjusted_appliances, other_indices)
    \cup UNION {CapDivisors(
                  CapLoop(1, [d |-> dicts, dc |-> daily_costs, adj |-> adjustments],
                          adjusted_appliances, SubSeq(other_indices, 1, k - 1), cpm,
                          max_monthly_bill).d[adjusted_appliances[other_indices[k][2]]].usage,
                  cpm[k], PositiveTotal(cpm), max_monthly_bill) :
                k \in DOMAIN other_indices}

\* lines 170-198 for one pair: total_cost_per_minute (179),
\* cost_per_minute_val (181), original_usage_minutes (189),
\* current_usage_minutes (198)
ReduceDivisors(current_usage_minutes, original_usage_minutes, cost_per_minute_val, total_cost_per_minute, excess_cost) ==
    IF QLe(current_usage_minutes, Zero) \/ QLe(cost_per_minute_val, Zero) THEN {}
    ELSE {total_cost_per_minute, cost_per_minute_val}
         \cup (IF QLt(ReducedUsage(current_usage_minutes, cost_per_minute_val,
                                   total_cost_per_minute, excess_cost),
                      current_usage_minutes)
               THEN {original_usage_minutes, current_usage_minutes} ELSE {})

\* the heap as the pairs before the k-th have left it in a while iteration
BeforePair(k, total_cpm, excess_cost) ==
    BalanceLoop(1, [d |-> dicts, dc |-> daily_costs, adj |-> adjustments],
                adjusted_appliances, appliances, SubSeq(balancing_indices, 1, k - 1),
                cost_per_minute, total_cpm, excess_cost).d

\* the divisors of one iteration of lines 147-201
PhaseBDivisors(total_cpm, excess_cost) ==
    IF ~OverThreshold \/ QLe(total_cpm, Zero) THEN {}
    ELSE UNION {ReduceDivisors(
                  BeforePair(k, total_cpm, excess_cost)[adjusted_appliances[balancing_indices[k][2]]].usage,
                  BeforePair(k, total_cpm, excess_cost)[appliances[balancing_indices[k][2]]].usage,
                  cost_per_minute[k], total_cpm, excess_cost) :
                k \in DOMAIN balancing_indices}

\* line 89: daily_usage_hours * 30
CostPerHourDivisors(apps) ==
    {QMul(apps[i].daily_usage_hours, QInt(30)) :
        i \in {j \in DOMAIN apps : QLt(Zero, apps[j].daily_usage_hours)}}

\* lines 104-120 for one appliance: total_cost_per_hour (114),
\* cost_per_hour (115), daily_usage_hours (120)
HoursDivisors(a, excess_cost, total_cost_per_hour) ==
    IF \/ a.device_type \notin HighCostDevices
       \/ QLe(a.adjusted_usage_hours, QMul(a.daily_usage_hours, Half))
       \/ a.cost_per_hour = Zero
    THEN {}
    ELSE {total_cost_per_hour, a.cost_per_hour}
         \cup (IF QLt(NewUsage(a, excess_cost, total_cost_per_hour), a.adjusted_usage_hours)
               THEN {a.daily_usage_hours} ELSE {})

\* the divisors of one iteration of lines 94-137 under the answers of the model
UsagePhaseDivisors(total_cost_per_hour, excess_cost, answers) ==
    IF ~QLt(threshold, total_cost) \/ total_cost_per_hour = Zero THEN {}
    ELSE UNION {HoursDivisors(
                  UsageLoop(1, dp_appliances, SubSeq(sorted_appliances, 1, k - 1),
                            excess_cost, total_cost_per_hour, model,
                            answers)[sorted_appliances[k]],
                  excess_cost, total_cost_per_hour) :
                k \in DOMAIN sorted_appliances}

\* line 144: adjusted_power_watts under the sum of costs per watt
CostPerWattDivisors(apps) ==
    {apps[i].adjusted_power_watts :
        i \in {j \in DOMAIN apps :
                 IsHighCost(apps[j]) /\ QLt(PowerFloor(apps[j]), apps[j].adjusted_power_watts)}}

\* lines 150-166 for one appliance: adjusted_power_watts (155),
\* total_cost_per_watt (160), cost_per_watt (161), power_watts (166)
WattsDivisors(a, excess_cost, total_cost_per_watt) ==
    IF ~IsHighCost(a) \/ QLe(a.adjusted_power_watts, PowerFloor(a)) THEN {}
    ELSE {a.adjusted_power_watts}
         \cup (IF a.adjusted_power_watts = Zero
                  \/ QDiv(a.adjusted_cost, a.adjusted_power_watts) = Zero
               THEN {}
               ELSE {total_cost_per_watt, QDiv(a.adjusted_cost, a.adjusted_power_watts)}
                    \cup (IF QLt(NewPower(a, excess_cost, total_cost_per_watt),
                                 a.adjusted_power_watts)
                          THEN {a.power_watts} ELSE {}))

\* the divisors of lines 142-166 under the answers of the model
PowerPhaseDivisors(excess_cost, answers) ==
    IF ~QLt(threshold, total_cost) THEN {}
    ELSE CostPerWattDivisors(dp_appliances)
         \cup (IF Zero \in CostPerWattDivisors(dp_appliances)
                  \/ ~QLt(Zero, TotalCostPerWatt(dp_appliances))
               THEN {}
               ELSE UNION {WattsDivisors(
                             PowerLoop(1, dp_appliances, SubSeq(sorted_appliances, 1, k - 1),
                                       excess_cost, TotalCostPerWatt(dp_appliances), model,
                                       answers)[sorted_appliances[k]],
                             excess_cost, TotalCostPerWatt(dp_appliances)) :
                           k \in DOMAIN sorted_appliances})

\* every divisor the step that is due evaluates
Divisors ==
    CASE pc = "phaseA" ->
           PhaseADivisors(CostPerMinuteOthers(dicts, adjusted_appliances, daily_costs,
                                              other_indices))
      [] pc = "recheck" ->
           UsageDivisors(dicts, adjusted_appliances, balancing_indices)
      [] pc = "phaseB" ->
           PhaseBDivisors(TotalCostPerMinute(dicts, adjusted_appliances,
                                             balancing_indices, cost_per_minute),
                          QSub(total_monthly_bill, max_monthly_bill))
      [] pc = "call" /\ model # "none" ->
           CostPerHourDivisors(dp_appliances)
      [] pc = "usage" ->
           UNION {UsagePhaseDivisors(TotalCostPerHour(dp_appliances),
                                     QSub(total_cost, threshold), answers) :
                  answers \in Answers(model, Len(dp_appliances))}
      [] pc = "power" ->
           UNION {PowerPhaseDivisors(QSub(total_cost, threshold), answers) :
                  answers \in Answers(model, Len(dp_appliances))}
      [] OTHER -> {}

\* usage, power and costs are non-negative
NonNegativeInputs ==
    /\ NonNegativeCosts
    /\ \A o \in DOMAIN dicts0 : QLe(Zero, dicts0[o].usage)
    /\ \A i \in DOMAIN dp_appliances :
          /\ QLe(Zero, dp_appliances[i].daily_usage_hours)
          /\ QLe(Zero, dp_appliances[i].power_watts)
          /\ QLe(Zero, dp_appliances[i].predicted_cost)
          /\ QLe(Zero, dp_appliances[i].adjusted_cost)

\* C29: with non-negative usage, power and costs, no division of Phase A or
\* Phase B of balance_appliances, or of the usage and power phases of
\* apply_threshold, has the divisor 0.
C29_NoZeroDivisor == NonNegativeInputs => \A x \in Divisors : x[1] # 0

\* the power phase runs over a high-cost appliance of power 0 and positive
\* cost, next to one whose power it can reduce
C29_Witness ==
    /\ pc = "power" /\ NonNegativeInputs
    /\ QLt(threshold, total_cost)
    /\ QLt(Zero, TotalCostPerWatt(dp_appliances))
    /\ \E i \in DOMAIN dp_appliances :
          /\ IsHighCost(dp_appliances[i])
          /\ dp_appliances[i].adjusted_power_watts = Zero
          /\ QLt(Zero, dp_appliances[i].adjusted_cost)

\* ------------------------------------------------------------------------
\* EnergyCostPredictorApp (main.py): the handlers over self.appliances,
\* self.daily_costs and self.valid_indices.  The list self.appliances is the
\* list the DataManager holds; its dicts are dicts[appliances[i]].
\* ------------------------------------------------------------------------
\* the classes of model_loader.device_encoder: for any other device type
\* device_encoder.transform raises and the appliance is left out (line 41, 63)
EncodedDeviceTypes == {"Refrigerator", "Heater", "Smart Bulb"}

AppDeviceTypes == EncodedDeviceTypes \cup {"Toaster"}

AppUsageValues == {QInt(0), QInt(60)}

AppThresholds == {QInt(5)}

AppDicts ==
    [device_type : AppDeviceTypes, power : PowerValues, usage : AppUsageValues,
     room : RoomLocations, temperature : Temperatures, humidity : Humidities,
     on_off : Statuses]

\* the dicts the input form can give: the device type is picked from the classes
\* of the encoder (main.py lines 56-59)
FormDicts == {a \in AppDicts : a.device_type \in EncodedDeviceTypes}

AppRate(device_type) ==
    CASE device_type = "Heater" -> QInt(4)
      [] device_type = "Smart Bulb" -> QInt(2)
      [] OTHER -> QInt(1)

\* self.model.predict for one row of features: a daily cost that follows the
\* device type and the usage, 1 for an appliance that is not used
DailyCostOf(a) ==
    QAdd(QInt(1), QMul(AppRate(a.device_type), QDiv(a.usage, QInt(60))))

\* preprocess_appliances: the indices of the appliances it could encode
Preprocessable(d, list) ==
    SortedSeq({i \in DOMAIN list : d[list[i]].device_type \in EncodedDeviceTypes})

\* calculate_daily_costs(scaled_features): one prediction per encoded appliance
PredictedCosts(d, list) ==
    [k \in DOMAIN Preprocessable(d, list) |->
        DailyCostOf(d[list[Preprocessable(d, list)[k]]])]

\* the state after __init__, which creates none of the three attributes: until
\* a load_dataset has set them, add_appliance and set_threshold raise
\* AttributeError and the table has no row to delete
InitApp ==
    /\ pc = "init"
    /\ path = "none"
    /\ dicts = <<>>
    /\ appliances = <<>>
    /\ daily_costs = <<>>
    /\ valid_indices = <<>>
    /\ max_monthly_bill = Zero
    /\ adjusted_appliances = <<>>
    /\ adjustments = <<>>
    /\ total_monthly_bill = Zero
    /\ excluded_indices = <<>>
    /\ balancing_indices = <<>>
    /\ other_indices = <<>>
    /\ cost_per_minute = <<>>
    /\ dicts0 = <<>>
    /\ costs0 = <<>>
    /\ iterations = 0
    /\ passes = 0
    /\ dp_appliances = <<>>
    /\ threshold = Zero
    /\ sorted_appliances = <<>>
    /\ total_cost = Zero
    /\ model = "none"
    /\ dp_appliances0 = <<>>
    /\ calls = 0

\* the locals of balance_appliances and the history of its call
call_vars == <<max_monthly_bill, adjusted_appliances, adjustments, total_monthly_bill,
               excluded_indices, balancing_indices, other_indices, cost_per_minute,
               dicts0, costs0, iterations, passes>>

\* load_dataset, lines 64-106, with a file that json.load reads
LoadDataset ==
    /\ pc \in {"init", "idle"}
    /\ \E n \in 0 .. MaxAppliances :
         /\ dicts' \in [1 .. n -> AppDicts]
         /\ appliances' = [i \in 1 .. n |-> i]
    /\ IF Preprocessable(dicts', appliances') = <<>>
       THEN UNCHANGED <<daily_costs, valid_indices, pc>>
       ELSE /\ daily_costs' = PredictedCosts(dicts', appliances')
            /\ valid_indices' = Preprocessable(dicts', appliances')
            /\ pc' = "idle"
    /\ UNCHANGED <<path, call_vars, processor_vars>>

\* add_appliance, lines 108-159, with numeric inputs; the three lists are
\* kept to MaxAppliances entries
AddAppliance ==
    /\ pc = "idle"
    /\ Len(appliances) < MaxAppliances
    /\ Len(daily_costs) < MaxAppliances
    /\ Len(valid_indices) < MaxAppliances
    /\ \E a \in FormDicts :
         /\ dicts' = Append(dicts, a)
         /\ appliances' = Append(appliances, Len(dicts) + 1)
         /\ daily_costs' = Append(daily_costs, DailyCostOf(a))
    /\ valid_indices' = Append(valid_indices, Len(appliances'))
    /\ UNCHANGED <<pc, path, call_vars, processor_vars>>

\* list.pop(index) and np.delete(array, index), for a position from 1
Without(s, row) ==
    [k \in 1 .. Len(s) - 1 |-> IF k < row THEN s[k] ELSE s[k + 1]]

\* line 175
Renumbered(vi, row) ==
    LET kept == SelectSeq(vi, LAMBDA i : i # row)
    IN  [k \in DOMAIN kept |-> IF kept[k] < row THEN kept[k] ELSE kept[k] - 1]

\* delete_row(row), lines 161-185; np.delete raises IndexError for a row
\* past the end of daily_costs, after the DataManager has popped the appliance
DeleteRow ==
    /\ pc = "idle"
    /\ \E row \in DOMAIN appliances :
         /\ dicts' = [k \in 1 .. Len(appliances) - 1 |->
                         dicts[Without(appliances, row)[k]]]
         /\ appliances' = [k \in 1 .. Len(appliances) - 1 |-> k]
         /\ IF row \in DOMAIN daily_costs
            THEN /\ daily_costs' = Without(daily_costs, row)
                 /\ valid_indices' = Renumbered(valid_indices, row)
                 /\ UNCHANGED <<pc, path>>
            ELSE /\ pc' = "raised"
                 /\ path' = "failure"
                 /\ UNCHANGED <<daily_costs, valid_indices>>
    /\ UNCHANGED <<call_vars, processor_vars>>

\* set_threshold up to the first line of balance_appliances, lines 187-197;
\* passes counts the calls
SetThresholdCall ==
    /\ pc = "idle"
    /\ passes < MaxPasses
    /\ passes' = passes + 1
    /\ max_monthly_bill' \in AppThresholds
    /\ pc' = "call"
    /\ path' = "none"
    /\ dicts0' = dicts
    /\ costs0' = daily_costs
    /\ UNCHANGED <<dicts, appliances, daily_costs, valid_indices, adjusted_appliances,
                   adjustments, total_monthly_bill, excluded_indices,
                   balancing_indices, other_indices, cost_per_minute, iterations,
                   processor_vars>>

\* an IndexError inside balance_appliances reaches the Qt slot
BalancerRaises ==
    /\ pc' = "raised"
    /\ path' = "failure"
    /\ UNCHANGED <<balancer_vars, processor_vars>>

\* lines 55-72 index adjusted_appliances with every entry of valid_indices
\* and daily_costs with the position of every excluded appliance
ClassifyInRange ==
    /\ \A k \in DOMAIN valid_indices : valid_indices[k] \in DOMAIN adjusted_appliances
    /\ \A k \in DOMAIN valid_indices :
          IsExcluded(DeviceTypeAt(adjusted_appliances, valid_indices[k]))
              => k \in DOMAIN daily_costs

\* lines 81-88 index daily_costs with the position of every capped appliance
\* in use
PhaseAInRange ==
    \A k \in DOMAIN other_indices :
        QLt(Zero, dicts[adjusted_appliances[other_indices[k][2]]].usage)
            => other_indices[k][1] \in DOMAIN daily_costs

\* lines 138-144, when reached, index daily_costs with the position of every
\* balancing appliance in use
RecheckInRange ==
    (QLt(max_monthly_bill, SumTimes30(daily_costs)) /\ balancing_indices # <<>>) =>
        \A k \in DOMAIN balancing_indices :
            QLt(Zero, dicts[adjusted_appliances[balancing_indices[k][2]]].usage)
                => balancing_indices[k][1] \in DOMAIN daily_costs

ClassifyOrRaise ==
    /\ pc = "classify"
    /\ IF ClassifyInRange THEN Classify ELSE BalancerRaises

PhaseAOrRaise ==
    /\ pc = "phaseA"
    /\ IF PhaseAInRange THEN PhaseA ELSE BalancerRaises

RecheckOrRaise ==
    /\ pc = "recheck"
    /\ IF RecheckInRange THEN Recheck ELSE BalancerRaises

\* set_threshold from the return of balance_appliances on, lines 199-221; the
\* locals of the call are gone
SetThresholdReturn ==
    /\ pc = "done"
    /\ appliances' = adjusted_appliances
    /\ IF Preprocessable(dicts, appliances') = <<>>
       THEN UNCHANGED <<daily_costs, valid_indices>>
       ELSE /\ daily_costs' = PredictedCosts(dicts, appliances')
            /\ valid_indices' = Preprocessable(dicts, appliances')
    /\ pc' = "idle"
    /\ path' = "none"
    /\ max_monthly_bill' = Zero
    /\ adjusted_appliances' = <<>>
    /\ adjustments' = <<>>
    /\ total_monthly_bill' = Zero
    /\ excluded_indices' = <<>>
    /\ balancing_indices' = <<>>
    /\ other_indices' = <<>>
    /\ cost_per_minute' = <<>>
    /\ dicts0' = <<>>
    /\ costs0' = <<>>
    /\ iterations' = 0
    /\ UNCHANGED <<dicts, passes, processor_vars>>

NextApp ==
    \/ LoadDataset
    \/ AddAppliance
    \/ DeleteRow
    \/ SetThresholdCall
    \/ Enter
    \/ ClassifyOrRaise
    \/ PhaseAOrRaise
    \/ RecheckOrRaise
    \/ BalanceIteration
    \/ LoopBreak
    \/ LoopExit
    \/ SetThresholdReturn

SpecApp == InitApp /\ [][NextApp]_vars

\* daily_costs[k] is the cost predicted for appliances[valid_indices[k]]
InputsAligned ==
    /\ Len(daily_costs) = Len(valid_indices)
    /\ \A k \in DOMAIN valid_indices :
          /\ valid_indices[k] \in DOMAIN appliances
          /\ k \in DOMAIN daily_costs
                => daily_costs[k] = DailyCostOf(dicts[appliances[valid_indices[k]]])

\* C30: between two handlers of EnergyCostPredictorApp, after any sequence of
\* load_dataset, add_appliance, delete_row and set_threshold, daily_costs and
\* valid_indices have the same length, every entry of valid_indices is an
\* index of appliances, and daily_costs[k] is the cost predicted for
\* appliances[valid_indices[k]].
C30_InputsStayAligned == pc = "idle" => InputsAligned

====
